---- MODULE Spec2Model ----
(***************************************************************************)
(* Verification model of the mragent orchestration core:                   *)
(*   - the context builder (src/PLANNING.md, context-builder.ts part),     *)
(*   - the sandbox lifecycle manager (src/src/inngest/sandbox-manager.ts). *)
(* The specifications share the variables:                                 *)
(*   Spec         getOrCreateProjectSandbox calls and the cleanup pass,    *)
(*                interleaved at their awaits, against the remote service; *)
(*   SpecRace     two concurrent getOrCreateProjectSandbox calls;          *)
(*   SpecCleanup  cleanupExpiredSandboxes run alone, pass after pass;      *)
(*   SpecRun      one request and the workflow execution it starts;        *)
(*   SpecSeq      executions of one project that follow one another, with  *)
(*                steps run again, on a short and on a long history;       *)
(*   SpecOverlap  requests made at any time and executions of code-agent   *)
(*                that overlap;                                            *)
(*   SpecHello    executions of hello-world                                *)
(*                (src/src/inngest/functions.ts).                          *)
(***************************************************************************)
EXTENDS Integers, Sequences, FiniteSets, TLC

(***************************************************************************)
(* Optional values: null / undefined is None, a value v is Some(v).        *)
(***************************************************************************)
None == << >>

Some(v) == << v >>

IsSome(o) == o # None

Get(o) == o[1]

Min(a, b) == IF a < b THEN a ELSE b

(***************************************************************************)
(* Strings (JavaScript string operations used by the context builder).     *)
(***************************************************************************)
\* the characters of the texts this development handles: printable ASCII
\* (without the grave accent, which no string of a module can hold)
PrintableAscii ==
    LET s == " !\"#$%&'()*+,-./0123456789:;<=>?@ABCDEFGHIJKLMNOPQRSTUVWXYZ[\\]^_abcdefghijklmnopqrstuvwxyz{|}~"
    IN  { SubSeq(s, i, i) : i \in 1..Len(s) }

\* the upper-case letters among them
AsciiUpper ==
    LET s == "ABCDEFGHIJKLMNOPQRSTUVWXYZ"
    IN  { SubSeq(s, i, i) : i \in 1..Len(s) }

\* the ASCII characters toLowerCase leaves as they are
AsciiCaseless == (PrintableAscii \ AsciiUpper) \cup { "\t", "\n", "\f", "\r" }

\* String.prototype.toLowerCase on one character. It is defined on ASCII, the
\* alphabet of the texts above; a character outside ASCII has no value here
\* (JavaScript lower-cases some of them, U+212A to "k")
LowerChar(c) ==
    CASE c = "A" -> "a" [] c = "B" -> "b" [] c = "C" -> "c" [] c = "D" -> "d"
      [] c = "E" -> "e" [] c = "F" -> "f" [] c = "G" -> "g" [] c = "H" -> "h"
      [] c = "I" -> "i" [] c = "J" -> "j" [] c = "K" -> "k" [] c = "L" -> "l"
      [] c = "M" -> "m" [] c = "N" -> "n" [] c = "O" -> "o" [] c = "P" -> "p"
      [] c = "Q" -> "q" [] c = "R" -> "r" [] c = "S" -> "s" [] c = "T" -> "t"
      [] c = "U" -> "u" [] c = "V" -> "v" [] c = "W" -> "w" [] c = "X" -> "x"
      [] c = "Y" -> "y" [] c = "Z" -> "z" [] c \in AsciiCaseless -> c

RECURSIVE toLowerCase(_)
toLowerCase(s) ==
    IF Len(s) = 0 THEN ""
    ELSE IF Len(s) = 1 THEN LowerChar(s)
    ELSE LET half == Len(s) \div 2
         IN  toLowerCase(SubSeq(s, 1, half)) \o toLowerCase(SubSeq(s, half + 1, Len(s)))

\* String.prototype.includes
includes(s, kw) ==
    \E i \in 1..(Len(s) - Len(kw) + 1) : SubSeq(s, i, i + Len(kw) - 1) = kw

\* content.substring(0, n)
substring(s, n) == IF Len(s) > n THEN SubSeq(s, 1, n) ELSE s

\* Array.prototype.join
RECURSIVE join(_, _)
join(strs, sep) ==
    IF Len(strs) = 0 THEN ""
    ELSE IF Len(strs) = 1 THEN strs[1]
    ELSE strs[1] \o sep \o join(Tail(strs), sep)

(***************************************************************************)
(* File sets: Record<string, string>, a function from paths to contents.   *)
(***************************************************************************)
EmptyFiles == [p \in {} |-> ""]

\* Object.keys(files).length
FileCount(files) == Cardinality(DOMAIN files)

\* updatedFiles[path] = content for every entry of g, on top of f
MergeFiles(f, g) ==
    [p \in (DOMAIN f) \cup (DOMAIN g) |-> IF p \in DOMAIN g THEN g[p] ELSE f[p]]

(***************************************************************************)
(* Bounds and inputs.                                                      *)
(***************************************************************************)
\* completed rounds (USER turn + ASSISTANT/RESULT turn) of the long-lived
\* project in the initial store
SeedRounds == 9

\* longest prefix of a history buildProjectContext is applied to on its own
MaxPrefix == 3

\* clock ticks of the sandbox specification
MaxTicks == 2

\* environments the remote service hands out
MaxSandboxes == 2

\* passes of the cleanup a caller makes in a row
MaxPasses == 2

\* requests made on the project, each one starting an execution
MaxRuns == 2

\* agent invocations of an execution whose response may call a tool: the first
\* MaxToolCalls ones
MaxToolCalls == 2

Projects == {"p1", "p2"}

\* the project whose requests and executions the model follows
RunProject == "p1"

TaskSummaryText == "<task_summary>done</task_summary>"

GenericErrorText == "Something went wrong. Please try again."

SandboxErrorText == "The sandbox environment has timed out or lost connection. Please try sending your message again to continue development with a fresh environment."

\* getProjectMessageHistory(projectId, limit = 20)
DefaultLimit == 20

\* 5 * 60 * 1000 ms, the horizon getOrCreateProjectSandbox stores
SandboxTimeoutMs == 5 * 60 * 1000

\* the clock of the model advances by one horizon at a time
TickMs == SandboxTimeoutMs

VARIABLES
    messages,        \* Message table: set of rows (fragment joined in)
    sends,           \* mutations of RunProject that stored their row and await inngest.send
    events,          \* code-agent/run events of RunProject sent and not yet delivered
    runPc,           \* position of each workflow execution
    projectContext,  \* result of the build-context step of each execution
    now,             \* wall clock (ms)
    project,         \* Project table: activeSandboxId, sandboxExpiresAt per project
    sandboxes,       \* remote service: id of each live environment -> [files]
    created,         \* remote service: number of environments created so far
    calls,           \* getOrCreateProjectSandbox activations
    cleanup,         \* the cleanupExpiredSandboxes activation
    passLog,         \* what a caller of cleanupExpiredSandboxes saw of its passes
    run              \* each workflow execution: environment, network state, rows written

vars == << messages, sends, events, runPc, projectContext, now, project, sandboxes, created, calls, cleanup,
          passLog, run >>

ctxVars == << messages, sends, events, runPc, projectContext, run >>

sbxVars == << now, project, sandboxes, created, calls, cleanup, passLog >>

(***************************************************************************)
(* Context builder (context-builder.ts).                                   *)
(***************************************************************************)
\* a Message row with its fragment relation included
Message(projectId, role, type, content, createdAt, fragment) ==
    [ projectId |-> projectId, role |-> role, type |-> type,
      content |-> content, createdAt |-> createdAt, fragment |-> fragment ]

\* fragment: { create: { sandboxUrl, title: "Fragment", files } }
Fragment(sandboxUrl, files) ==
    [ sandboxUrl |-> sandboxUrl, title |-> "Fragment", files |-> files ]

\* `https://${sandbox.getHost(3000)}`
sandboxUrlOf(id) == "https://3000-" \o id \o ".e2b.dev"

\* orderBy: { createdAt: "asc" }
RECURSIVE orderByCreatedAtAsc(_)
orderByCreatedAtAsc(rows) ==
    IF rows = {} THEN << >>
    ELSE LET first == CHOOSE m \in rows : \A o \in rows : m.createdAt <= o.createdAt
         IN  << first >> \o orderByCreatedAtAsc(rows \ {first})

\* take: limit
take(rows, limit) == SubSeq(rows, 1, Min(limit, Len(rows)))

\* prisma.message.findMany({ where: { projectId }, include: { fragment: true },
\*                           orderBy: { createdAt: "asc" }, take: limit })
getProjectMessageHistory(projectId, limit) ==
    take(orderByCreatedAtAsc({ m \in messages : m.projectId = projectId }), limit)

\* the fragment-carrying ASSISTANT/RESULT turns of the list; the last one's files
getLatestProjectFiles(msgs) ==
    LET messagesWithFragments ==
            SelectSeq(msgs, LAMBDA msg : /\ IsSome(msg.fragment)
                                         /\ msg.role = "ASSISTANT"
                                         /\ msg.type = "RESULT")
    IN  IF Len(messagesWithFragments) = 0 THEN EmptyFiles
        ELSE Get(messagesWithFragments[Len(messagesWithFragments)].fragment).files

inferProjectType(firstRequest) ==
    LET request == toLowerCase(firstRequest)
    IN  IF includes(request, "netflix") \/ includes(request, "movie") \/ includes(request, "streaming")
        THEN "Streaming/Media Application"
        ELSE IF includes(request, "dashboard") \/ includes(request, "admin")
        THEN "Admin Dashboard"
        ELSE IF includes(request, "kanban") \/ includes(request, "todo") \/ includes(request, "task")
        THEN "Task Management Application"
        ELSE IF includes(request, "blog") \/ includes(request, "cms")
        THEN "Content Management System"
        ELSE IF includes(request, "ecommerce") \/ includes(request, "shop") \/ includes(request, "store")
        THEN "E-commerce Application"
        ELSE IF includes(request, "chat") \/ includes(request, "messaging")
        THEN "Communication Application"
        ELSE IF includes(request, "portfolio") \/ includes(request, "landing")
        THEN "Portfolio/Landing Page"
        ELSE "Web Application"

\* the labels one USER turn pushes
featuresOf(text) ==
    LET content == toLowerCase(text)
        label(hit, name) == IF hit THEN << name >> ELSE << >>
    IN  IF includes(content, "add") \/ includes(content, "create")
        THEN label(includes(content, "page"), "New Page")
             \o label(includes(content, "component"), "New Component")
             \o label(includes(content, "feature"), "New Feature")
             \o label(includes(content, "login") \/ includes(content, "auth"), "Authentication")
             \o label(includes(content, "database") \/ includes(content, "api"), "Backend/API")
             \o label(includes(content, "style") \/ includes(content, "theme"), "Styling/Theme")
        ELSE << >>

RECURSIVE pushFeatures(_)
pushFeatures(msgs) ==
    IF Len(msgs) = 0 THEN << >>
    ELSE (IF Head(msgs).role = "USER" THEN featuresOf(Head(msgs).content) ELSE << >>)
         \o pushFeatures(Tail(msgs))

extractFeatures(msgs) ==
    LET features == pushFeatures(msgs)
    IN  IF Len(features) > 0 THEN features ELSE << "Initial Implementation" >>

extractProjectSummary(msgs) ==
    LET userMessages == SelectSeq(msgs, LAMBDA msg : msg.role = "USER")
    IN  IF Len(userMessages) = 0 THEN "No project description available."
        ELSE LET firstRequest == userMessages[1].content
             IN  "Project Type: " \o inferProjectType(firstRequest)
                 \o "\nInitial Request: " \o firstRequest
                 \o "\nFeatures Added: " \o join(extractFeatures(msgs), ", ")

\* the lines pushed for msgs[i..], i the 1-based position (index = i - 1)
RECURSIVE pushSteps(_, _)
pushSteps(msgs, i) ==
    IF i > Len(msgs) THEN << >>
    ELSE LET msg == msgs[i]
             line ==
                IF msg.role = "USER"
                THEN << "Step " \o ToString(((i - 1) \div 2) + 1) \o ": User requested - "
                        \o substring(msg.content, 100)
                        \o (IF Len(msg.content) > 100 THEN "..." ELSE "") >>
                ELSE IF msg.role = "ASSISTANT" /\ msg.type = "RESULT" /\ IsSome(msg.fragment)
                THEN << "  - AI generated " \o ToString(FileCount(Get(msg.fragment).files))
                        \o " files with working code" >>
                ELSE << >>
         IN  line \o pushSteps(msgs, i + 1)

extractDevelopmentSteps(msgs) == join(pushSteps(msgs, 1), "\n")

RECURSIVE transcript(_)
transcript(msgs) ==
    IF Len(msgs) = 0 THEN << >>
    ELSE << Head(msgs).role \o ": " \o Head(msgs).content >> \o transcript(Tail(msgs))

\* the record returned for a first message
emptyContext ==
    [ conversationHistory |-> "", currentFiles |-> EmptyFiles,
      projectSummary |-> "", developmentHistory |-> "", hasContext |-> FALSE ]

\* the record returned otherwise
fullContext(msgs) ==
    [ conversationHistory |-> join(transcript(msgs), "\n\n"),
      currentFiles |-> getLatestProjectFiles(msgs),
      projectSummary |-> extractProjectSummary(msgs),
      developmentHistory |-> extractDevelopmentSteps(msgs),
      hasContext |-> TRUE ]

\* mutant: the guard reads messages.length < 1
buildProjectContextOffByOne(msgs) ==
    IF Len(msgs) < 1 THEN emptyContext ELSE fullContext(msgs)

buildProjectContext(msgs) ==
    IF Len(msgs) <= 1 THEN emptyContext ELSE fullContext(msgs)

(***************************************************************************)
(* Sandbox lifecycle manager (sandbox-manager.ts) and the remote service.  *)
(***************************************************************************)
\* the caller of getOrCreateProjectSandbox: one call at a time, any number of calls
CallIds == { "run1" }

\* identifiers the remote service gives its environments
SandboxId(n) == "sbx" \o ToString(n)

\* previousFiles arguments of getOrCreateProjectSandbox
PreviousFilesInputs ==
    { None,
      Some(EmptyFiles),
      Some([p \in {"a.txt", "b.txt"} |-> IF p = "a.txt" THEN "1" ELSE "2"]) }

\* JavaScript truthiness of string | null
Truthy(id) == id # None /\ id # Some("")

\* mutant: the comparison reads new Date() <= project.sandboxExpiresAt
isActiveSandboxInclusive(row) ==
    IF ~Truthy(row.activeSandboxId) \/ row.sandboxExpiresAt = None
    THEN FALSE
    ELSE now <= Get(row.sandboxExpiresAt)

\* isActiveSandbox(project); new Date() is the clock `now`
isActiveSandbox(row) ==
    IF ~Truthy(row.activeSandboxId) \/ row.sandboxExpiresAt = None
    THEN FALSE
    ELSE now < Get(row.sandboxExpiresAt)

\* a getOrCreateProjectSandbox activation before it is started
idleCall ==
    [ pc |-> "idle", projectId |-> "p1", previousFiles |-> None,
      row |-> None,           \* the project row read, kept while it is still used
      active |-> FALSE,
      connectError |-> FALSE, sandbox |-> None, createdAt |-> None, written |-> {},
      writeError |-> FALSE, sandboxExpiresAt |-> None,
      result |-> None, error |-> None ]

idleCleanup == [ pc |-> "idle", cutoff |-> 0, expiredProjects |-> {} ]

\* the remote service's record of an environment created from the template
newSandbox == [ files |-> EmptyFiles ]

\* Sandbox.connect(id) can succeed: the remote service still runs the environment
isLive(id) == id \in DOMAIN sandboxes

\* handle.files.read(path): the content, or None for an error
readFile(id, path) ==
    IF isLive(id) /\ path \in DOMAIN sandboxes[id].files
    THEN Some(sandboxes[id].files[path])
    ELSE None

\* handle.files.write(path, content) on the remote side
writeFile(id, path, content) ==
    [ sandboxes EXCEPT ![id].files = MergeFiles(@, [p \in {path} |-> content]) ]

\* the clock advances
Tick ==
    /\ now < MaxTicks * TickMs
    /\ now' = now + TickMs
    /\ UNCHANGED << ctxVars, passLog, project, sandboxes, created, calls, cleanup >>

\* the remote side tears an environment down (timeout or kill): it is gone
RemoteExpire(id) ==
    /\ isLive(id)
    /\ sandboxes' = [ i \in DOMAIN sandboxes \ {id} |-> sandboxes[i] ]
    /\ UNCHANGED << ctxVars, passLog, now, project, created, calls, cleanup >>

\* getOrCreateProjectSandbox(projectId, previousFiles) is called and findUnique
\* resolves; if (project && isActiveSandbox(project)) connect, else create
GOC_FindUnique(c, projectId, previousFiles) ==
    /\ calls[c].pc = "idle"
    /\ LET row == project[projectId]
           active == isActiveSandbox(row)
       IN  calls' = [ calls EXCEPT ![c] =
              [ @ EXCEPT !.projectId = projectId, !.previousFiles = previousFiles,
                         !.row = IF active THEN Some(row) ELSE None,
                         !.active = active,
                         !.pc = IF active THEN "connect" ELSE "create" ] ]
    /\ UNCHANGED << ctxVars, passLog, now, project, sandboxes, created, cleanup >>

\* the caller has taken the result or the error of the call
GOC_Settle(c) ==
    /\ calls[c].pc \in { "returned", "thrown" }
    /\ calls' = [ calls EXCEPT ![c] = idleCall ]
    /\ UNCHANGED << ctxVars, passLog, now, project, sandboxes, created, cleanup >>

\* mutant: the result of a reuse reports a fresh environment
reuseResultNotReused(call) ==
    [ sandboxId |-> Get(Get(call.row).activeSandboxId), isReused |-> FALSE ]

\* return { sandboxId: project.activeSandboxId, isReused: true }
reuseResult(call) ==
    [ sandboxId |-> Get(Get(call.row).activeSandboxId), isReused |-> TRUE ]

\* Sandbox.connect resolves with a handle: the stored environment is returned
GOC_ConnectOk(c) ==
    /\ calls[c].pc = "connect"
    /\ isLive(Get(Get(calls[c].row).activeSandboxId))
    /\ calls' = [ calls EXCEPT ![c] =
          [ @ EXCEPT !.pc = "returned", !.result = Some(reuseResult(calls[c])) ] ]
    /\ UNCHANGED << ctxVars, passLog, now, project, sandboxes, created, cleanup >>

\* mutant: the catch block re-throws
afterConnectErrorRethrow(call) ==
    [ call EXCEPT !.pc = "thrown", !.error = Some("connect"), !.row = None ]

\* catch (error) { console.log(...) }: execution continues at Sandbox.create
afterConnectError(call) == [ call EXCEPT !.pc = "create", !.row = None ]

\* Sandbox.connect rejects (environment gone, or any connection error)
GOC_ConnectError(c) ==
    /\ calls[c].pc = "connect"
    /\ calls' = [ calls EXCEPT ![c] =
          afterConnectError([ @ EXCEPT !.connectError = TRUE ]) ]
    /\ UNCHANGED << ctxVars, passLog, now, project, sandboxes, created, cleanup >>

\* mutant: the last path of the snapshot is skipped
pathsToSyncSkipping(files) ==
    IF files = None \/ FileCount(Get(files)) = 0 THEN {}
    ELSE DOMAIN Get(files) \ { CHOOSE p \in DOMAIN Get(files) : TRUE }

\* if (previousFiles && Object.keys(previousFiles).length > 0): every path of
\* Object.entries(files); otherwise nothing is written
pathsToSync(files) ==
    IF files = None \/ FileCount(Get(files)) = 0 THEN {} ELSE DOMAIN Get(files)

\* new Date(Date.now() + 5 * 60 * 1000)
newExpiry == now + SandboxTimeoutMs

\* the call once nothing is left to write: the expiry is computed and the
\* project update is issued
readyToUpdate(call) ==
    [ call EXCEPT !.pc = "update", !.sandboxExpiresAt = Some(newExpiry) ]

\* the call after a step of creation or of the sync loop
continueSync(call) ==
    IF pathsToSync(call.previousFiles) \ call.written = {}
    THEN readyToUpdate(call)
    ELSE [ call EXCEPT !.pc = "sync" ]

\* Sandbox.create("mragent-nextjs-test-2") resolves with a new environment
GOC_CreateOk(c) ==
    /\ calls[c].pc = "create"
    /\ created < MaxSandboxes
    /\ LET id == SandboxId(created + 1)
       IN  /\ created' = created + 1
           /\ sandboxes' = [ i \in DOMAIN sandboxes \cup {id} |->
                               IF i = id THEN newSandbox ELSE sandboxes[i] ]
           /\ calls' = [ calls EXCEPT ![c] =
                  continueSync([ @ EXCEPT !.sandbox = Some(id), !.createdAt = Some(now) ]) ]
    /\ UNCHANGED << ctxVars, passLog, now, project, cleanup >>

\* Sandbox.create rejects: the error leaves getOrCreateProjectSandbox
GOC_CreateError(c) ==
    /\ calls[c].pc = "create"
    /\ calls' = [ calls EXCEPT ![c] = [ @ EXCEPT !.pc = "thrown", !.error = Some("create") ] ]
    /\ UNCHANGED << ctxVars, passLog, now, project, sandboxes, created, cleanup >>

\* syncFilesToSandbox: one sandbox.files.write(path, content) resolves
GOC_SyncWriteOk(c, path) ==
    /\ calls[c].pc = "sync"
    /\ path \in pathsToSync(calls[c].previousFiles) \ calls[c].written
    /\ isLive(Get(calls[c].sandbox))
    /\ sandboxes' = writeFile(Get(calls[c].sandbox), path, Get(calls[c].previousFiles)[path])
    /\ calls' = [ calls EXCEPT ![c] = continueSync([ @ EXCEPT !.written = @ \cup {path} ]) ]
    /\ UNCHANGED << ctxVars, passLog, now, project, created, cleanup >>

\* mutant: the catch block of syncFilesToSandbox swallows the error
afterWriteErrorSwallowed(call) == readyToUpdate(call)

\* catch (error) { console.error(...); throw error }, not caught by the caller
afterWriteError(call) == [ call EXCEPT !.pc = "thrown", !.error = Some("write") ]

\* mutant: the reference to the new environment is stored before the error leaves
GOC_SyncWriteErrorStoresId(c, path) ==
    /\ calls[c].pc = "sync"
    /\ path \in pathsToSync(calls[c].previousFiles) \ calls[c].written
    /\ calls' = [ calls EXCEPT ![c] = afterWriteError([ @ EXCEPT !.writeError = TRUE ]) ]
    /\ project' = [ project EXCEPT ![calls[c].projectId] =
                      [ activeSandboxId |-> calls[c].sandbox,
                        sandboxExpiresAt |-> Some(now + SandboxTimeoutMs) ] ]
    /\ UNCHANGED << ctxVars, passLog, now, sandboxes, created, cleanup >>

\* one sandbox.files.write rejects
GOC_SyncWriteError(c, path) ==
    /\ calls[c].pc = "sync"
    /\ path \in pathsToSync(calls[c].previousFiles) \ calls[c].written
    /\ calls' = [ calls EXCEPT ![c] = afterWriteError([ @ EXCEPT !.writeError = TRUE ]) ]
    /\ UNCHANGED << ctxVars, passLog, now, project, sandboxes, created, cleanup >>

\* mutant: the update leaves a reference another call has stored
projectUpdateDataFirstWins(call) ==
    IF project[call.projectId].activeSandboxId # None
    THEN project[call.projectId]
    ELSE [ activeSandboxId |-> call.sandbox, sandboxExpiresAt |-> call.sandboxExpiresAt ]

\* mutant: the update stores the identifier alone
projectUpdateDataIdOnly(call) ==
    [ activeSandboxId |-> call.sandbox, sandboxExpiresAt |-> None ]

\* data: { activeSandboxId: sandbox.sandboxId, sandboxExpiresAt }
projectUpdateData(call) ==
    [ activeSandboxId |-> call.sandbox, sandboxExpiresAt |-> call.sandboxExpiresAt ]

\* prisma.project.update resolves; return { sandboxId, isReused: false }
GOC_Update(c) ==
    /\ calls[c].pc = "update"
    /\ project' = [ project EXCEPT ![calls[c].projectId] = projectUpdateData(calls[c]) ]
    /\ calls' = [ calls EXCEPT ![c] =
          [ @ EXCEPT !.pc = "returned",
                     !.result = Some([ sandboxId |-> Get(calls[c].sandbox),
                                       isReused |-> FALSE ]) ] ]
    /\ UNCHANGED << ctxVars, passLog, now, sandboxes, created, cleanup >>

\* cleanupExpiredSandboxes is called: findMany is issued with lt: new Date()
CleanupCall ==
    /\ cleanup.pc = "idle"
    /\ cleanup' = [ cleanup EXCEPT !.pc = "findMany", !.cutoff = now ]
    /\ UNCHANGED << ctxVars, now, project, sandboxes, created, calls >>

\* mutant: the query reads lte instead of lt
expiredProjectsAtInclusive(cutoff) ==
    { p \in Projects : /\ project[p].sandboxExpiresAt # None
                       /\ Get(project[p].sandboxExpiresAt) <= cutoff
                       /\ project[p].activeSandboxId # None }

\* where: { sandboxExpiresAt: { lt: cutoff }, activeSandboxId: { not: null } }
expiredProjectsAt(cutoff) ==
    { p \in Projects : /\ project[p].sandboxExpiresAt # None
                       /\ Get(project[p].sandboxExpiresAt) < cutoff
                       /\ project[p].activeSandboxId # None }

\* findMany resolves with the expired projects
CleanupFindMany ==
    /\ cleanup.pc = "findMany"
    /\ LET found == expiredProjectsAt(cleanup.cutoff)
       IN  cleanup' = IF found = {} THEN idleCleanup
                      ELSE [ cleanup EXCEPT !.expiredProjects = found, !.pc = "update" ]
    /\ UNCHANGED << ctxVars, now, project, sandboxes, created, calls >>

\* mutant: the pass clears the identifier alone
clearedTrackingIdOnly(row) == [ row EXCEPT !.activeSandboxId = None ]

\* data: { activeSandboxId: null, sandboxExpiresAt: null }
clearedTracking(row) == [ activeSandboxId |-> None, sandboxExpiresAt |-> None ]

\* prisma.project.update of one project of the loop resolves
CleanupUpdate(p) ==
    /\ cleanup.pc = "update"
    /\ p \in cleanup.expiredProjects
    /\ project' = [ project EXCEPT ![p] = clearedTracking(@) ]
    /\ LET rest == cleanup.expiredProjects \ {p}
       IN  cleanup' = IF rest = {} THEN idleCleanup
                      ELSE [ cleanup EXCEPT !.expiredProjects = rest ]
    /\ UNCHANGED << ctxVars, now, sandboxes, created, calls >>

Paths == { "a.txt", "b.txt" }

SbxIdle ==
    /\ now = 0
    /\ project = [p \in Projects |-> [activeSandboxId |-> None, sandboxExpiresAt |-> None]]
    /\ sandboxes = << >>
    /\ created = 0
    /\ calls = [c \in CallIds |-> idleCall]
    /\ cleanup = idleCleanup
    /\ passLog = << >>

\* step.run belongs to the engine, which is not part of the repository. An
\* engine either runs the callback of a step in the memory of the handler
\* ("in-process"), or it checkpoints the value the step returned and invokes the
\* handler again on the memoised values ("checkpoint"): what a step did to the
\* objects of the handler then shows only through its returned value
StepEngines == { "in-process", "checkpoint" }

\* a workflow execution before its event arrives: network.state.data is empty
idleRun ==
    [ fn |-> "",               \* id of the function the engine invoked
      engine |-> "",           \* how the engine runs step.run (one of StepEngines)
      previousFiles |-> None,  \* what getLatestProjectFiles resolved with
      snapshot |-> None,       \* currentFiles as build-context returned them
      sandboxId |-> None, isReused |-> FALSE,
      iter |-> 0,              \* agent invocations network.run has completed
      summary |-> None,        \* network.state.data.summary
      files |-> None,          \* network.state.data.files (None: undefined)
      response |-> << >>,      \* result.output of the last agent invocation
      call |-> None,           \* the tool call whose handler is running
      toolResult |-> None,     \* what the last tool handler step returned
      written |-> EmptyFiles,  \* last content each sandbox.files.write of a tool stored
      committed |-> EmptyFiles, \* files of the createOrUpdateFiles calls that returned newFiles
      thrown |-> None,         \* the error that left network.run
      failedAt |-> None,       \* the step whose error left the function
      sandboxUrl |-> None,
      turns |-> {} ]           \* rows created by this execution

\* an execution slot under one of the engines, before an event is delivered
startRun(engine) == [ idleRun EXCEPT !.engine = engine ]

CtxIdle ==
    /\ messages = {}
    /\ sends = 0
    /\ events = 0
    /\ runPc = [ e \in CallIds |-> "idle" ]
    /\ projectContext = [ e \in CallIds |-> None ]
    /\ run = [ e \in CallIds |-> idleRun ]

Init ==
    /\ CtxIdle
    /\ SbxIdle

Next ==
    \/ Tick
    \/ \E n \in 1..MaxSandboxes : RemoteExpire(SandboxId(n))
    \/ \E c \in CallIds, p \in Projects, files \in PreviousFilesInputs :
          GOC_FindUnique(c, p, files)
    \/ \E c \in CallIds : GOC_ConnectOk(c)
    \/ \E c \in CallIds : GOC_ConnectError(c)
    \/ \E c \in CallIds : GOC_CreateOk(c)
    \/ \E c \in CallIds : GOC_CreateError(c)
    \/ \E c \in CallIds, path \in Paths : GOC_SyncWriteOk(c, path)
    \/ \E c \in CallIds, path \in Paths : GOC_SyncWriteError(c, path)
    \/ \E c \in CallIds : GOC_Update(c)
    \/ \E c \in CallIds : GOC_Settle(c)
    \/ CleanupCall /\ UNCHANGED passLog
    \/ CleanupFindMany /\ UNCHANGED passLog
    \/ \E p \in Projects : CleanupUpdate(p) /\ UNCHANGED passLog

Spec == Init /\ [][Next]_vars

(***************************************************************************)
(* Two executions call getOrCreateProjectSandbox on the same project at    *)
(* the same time, once each; the project holds no reference at first.      *)
(***************************************************************************)
RaceCallIds == { "run1", "run2" }

InitRace ==
    /\ CtxIdle
    /\ now = 0
    /\ project = [p \in Projects |-> [activeSandboxId |-> None, sandboxExpiresAt |-> None]]
    /\ sandboxes = << >>
    /\ created = 0
    /\ calls = [c \in RaceCallIds |-> idleCall]
    /\ cleanup = idleCleanup
    /\ passLog = << >>

NextRace ==
    \/ Tick
    \/ \E n \in 1..MaxSandboxes : RemoteExpire(SandboxId(n))
    \/ \E c \in RaceCallIds, files \in PreviousFilesInputs :
          GOC_FindUnique(c, RunProject, files)
    \/ \E c \in RaceCallIds : GOC_ConnectOk(c)
    \/ \E c \in RaceCallIds : GOC_ConnectError(c)
    \/ \E c \in RaceCallIds : GOC_CreateOk(c)
    \/ \E c \in RaceCallIds : GOC_CreateError(c)
    \/ \E c \in RaceCallIds, path \in Paths : GOC_SyncWriteOk(c, path)
    \/ \E c \in RaceCallIds, path \in Paths : GOC_SyncWriteError(c, path)
    \/ \E c \in RaceCallIds : GOC_Update(c)

SpecRace == InitRace /\ [][NextRace]_vars

(***************************************************************************)
(* cleanupExpiredSandboxes run alone: a caller invokes it MaxPasses times  *)
(* in a row on project rows drawn from StoredRows, while the clock and the *)
(* remote service go their own way.                                        *)
(***************************************************************************)
\* rows a project can hold: no reference, or an id with its expiry
StoredRows ==
    { [ activeSandboxId |-> None, sandboxExpiresAt |-> None ] }
    \cup { [ activeSandboxId |-> Some(SandboxId(n)), sandboxExpiresAt |-> Some(k * TickMs) ] :
              n \in 1..MaxSandboxes, k \in 1..MaxTicks }

InitCleanup ==
    /\ CtxIdle
    /\ now \in { k * TickMs : k \in 0..MaxTicks }
    /\ project \in [ Projects -> StoredRows ]
    /\ created = MaxSandboxes
    /\ sandboxes \in { << >>, [ i \in { SandboxId(1) } |-> newSandbox ] }
    /\ calls = [c \in CallIds |-> idleCall]
    /\ cleanup = idleCleanup
    /\ passLog = << >>

\* the caller invokes cleanupExpiredSandboxes(): it notes the clock and the rows
PassCall ==
    /\ Len(passLog) < MaxPasses
    /\ CleanupCall
    /\ passLog' = Append(passLog, [ cutoff |-> now, before |-> project, updated |-> {} ])

PassFindMany == CleanupFindMany /\ UNCHANGED passLog

\* console.log(`Cleaning up expired sandbox tracking for ...`), then the update
PassUpdate(p) ==
    /\ CleanupUpdate(p)
    /\ passLog' = [ passLog EXCEPT ![Len(passLog)].updated =
                       @ \cup { [ projectId |-> p, row |-> project[p] ] } ]

NextCleanup ==
    \/ Tick
    \/ \E n \in 1..MaxSandboxes : RemoteExpire(SandboxId(n))
    \/ PassCall
    \/ PassFindMany
    \/ \E p \in Projects : PassUpdate(p)

SpecCleanup == InitCleanup /\ [][NextCleanup]_vars

(***************************************************************************)
(* Properties of the cleanup pass.                                         *)
(***************************************************************************)
\* the row's stored expiry is before instant t and its id is non-null
ExpiredAt(row, t) ==
    /\ row.activeSandboxId # None
    /\ row.sandboxExpiresAt # None
    /\ Get(row.sandboxExpiresAt) < t

\* C11: when a pass run alone has ended, every project whose row at the call
\* had a non-null id and an expiry before the clock of the call has both fields
\* null, every other row is what it was at the call, and no step of the pass
\* touched the remote service.
C11_PassEffect ==
    (cleanup.pc = "idle" /\ passLog # << >>) =>
        LET pass == passLog[Len(passLog)]
        IN  \A p \in Projects :
                project[p] = IF ExpiredAt(pass.before[p], pass.cutoff)
                             THEN [ activeSandboxId |-> None, sandboxExpiresAt |-> None ]
                             ELSE pass.before[p]

C11_NoRemoteCall ==
    (cleanup' # cleanup) => (sandboxes' = sandboxes /\ created' = created)

C11_CleanupClearsExactlyExpired == []C11_PassEffect /\ [][C11_NoRemoteCall]_vars

\* C11 witness: a pass has ended that cleared one project's reference and left
\* another project's live reference in place, with a remote environment running
C11_Witness ==
    /\ cleanup.pc = "idle"
    /\ Len(passLog) = 1
    /\ \E p, q \in Projects :
          /\ ExpiredAt(passLog[1].before[p], passLog[1].cutoff)
          /\ project[p].activeSandboxId = None
          /\ project[q].activeSandboxId # None
          /\ project[q] = passLog[1].before[q]
    /\ sandboxes # << >>

\* C12 as stated: a pass that follows another pass performs no update.
C12_SecondPassUpdatesNothing ==
    \A i \in 2..Len(passLog) : passLog[i].updated = {}

\* C12 corrected: a pass that follows another pass updates only rows that still
\* held an id and whose expiry lies between the clock of the earlier call
\* (inclusive) and the clock of its own call (exclusive); so it updates nothing
\* the earlier pass cleared, and nothing at all when both calls read the same
\* clock.
C12_SecondPassUpdatesOnlyNewlyExpired ==
    \A i \in 2..Len(passLog) :
        /\ \A u \in passLog[i].updated :
              /\ u.row.activeSandboxId # None
              /\ u.row.sandboxExpiresAt # None
              /\ passLog[i - 1].cutoff <= Get(u.row.sandboxExpiresAt)
              /\ Get(u.row.sandboxExpiresAt) < passLog[i].cutoff
              /\ \A v \in passLog[i - 1].updated : v.projectId # u.projectId
        /\ passLog[i].cutoff = passLog[i - 1].cutoff => passLog[i].updated = {}

\* C12 witness: two passes in a row at the same clock; the first cleared a
\* reference and the second has ended without an update
C12_Witness ==
    /\ cleanup.pc = "idle"
    /\ Len(passLog) = 2
    /\ passLog[1].updated # {}
    /\ passLog[2].cutoff = passLog[1].cutoff
    /\ passLog[2].updated = {}
    /\ passLog[2].before # passLog[1].before

(***************************************************************************)
(* Properties of the sandbox lifecycle manager, checked under Spec.        *)
(***************************************************************************)
\* the paths of a previousFiles argument (none when it is absent)
SnapshotPaths(previousFiles) ==
    IF previousFiles = None THEN {} ELSE DOMAIN Get(previousFiles)

\* the instants the model's clock and stored expiries can take
Instants == { k * TickMs : k \in 0..(MaxTicks + 1) }

\* C4: isActiveSandbox depends on the stored id, the stored expiry and the
\* clock alone: it is TRUE exactly when an id is stored, an expiry is stored and
\* now is strictly before the expiry.
C4_LivenessOfInputs ==
    \A id \in { None, Some(SandboxId(1)) }, expiry \in { None } \cup { Some(t) : t \in Instants } :
        isActiveSandbox([ activeSandboxId |-> id, sandboxExpiresAt |-> expiry ])
            = (id # None /\ expiry # None /\ now < Get(expiry))

\* C4 (continued): the check a call makes on the row it read takes the branch
\* that this value selects, whether or not the remote environment still exists.
C4_LivenessOfCall ==
    \A c \in CallIds :
        (calls[c].pc = "idle" /\ calls'[c].pc # "idle") =>
            LET row == project[calls'[c].projectId]
                live == /\ row.activeSandboxId # None
                        /\ row.sandboxExpiresAt # None
                        /\ now < Get(row.sandboxExpiresAt)
            IN  /\ calls'[c].active = live
                /\ calls'[c].pc = IF live THEN "connect" ELSE "create"

C4_LivenessCheckIsPure == []C4_LivenessOfInputs /\ [][C4_LivenessOfCall]_vars

\* C4 witness: the check answered TRUE for an environment the remote side has
\* already torn down
C4_Witness ==
    \E c \in CallIds :
        /\ calls[c].pc = "connect"
        /\ calls[c].active
        /\ ~isLive(Get(Get(calls[c].row).activeSandboxId))

\* C5: in every reachable state each project row has activeSandboxId and
\* sandboxExpiresAt both set or both null.
C5_IdAndExpirySetTogether ==
    \A p \in Projects :
        (project[p].activeSandboxId = None) <=> (project[p].sandboxExpiresAt = None)

\* C5 witness: a row holds a reference while the cleanup pass is clearing and a
\* creation is about to store another reference
C5_Witness ==
    /\ cleanup.pc = "update"
    /\ \E c \in CallIds : calls[c].pc = "update"
    /\ \E p \in Projects : project[p].activeSandboxId # None

\* C6: a call whose connection attempt raised an error never ends with that
\* error: it goes on to create an environment; when it returns, the result is
\* the new id with isReused = FALSE, every supplied file was written into the
\* new environment, and its update stored the new id.
C6_AfterConnectError ==
    \A c \in CallIds :
        calls[c].connectError =>
            /\ calls[c].pc \in { "create", "sync", "update", "returned", "thrown" }
            /\ calls[c].pc = "thrown" => calls[c].error \in { Some("create"), Some("write") }
            /\ calls[c].pc = "returned" =>
                  /\ calls[c].sandbox # None
                  /\ calls[c].result =
                        Some([ sandboxId |-> Get(calls[c].sandbox), isReused |-> FALSE ])
                  /\ calls[c].written = SnapshotPaths(calls[c].previousFiles)
                  /\ isLive(Get(calls[c].sandbox)) =>
                        \A path \in SnapshotPaths(calls[c].previousFiles) :
                            readFile(Get(calls[c].sandbox), path)
                                = Some(Get(calls[c].previousFiles)[path])

C6_StoresNewId ==
    \A c \in CallIds :
        (calls[c].connectError /\ calls[c].pc = "update" /\ calls'[c].pc = "returned") =>
            project'[calls[c].projectId].activeSandboxId = calls[c].sandbox

C6_ConnectErrorFallsThrough == []C6_AfterConnectError /\ [][C6_StoresNewId]_vars

\* C6 witness: a call returned a fresh, resynced environment after its
\* connection attempt failed
C6_Witness ==
    \E c \in CallIds :
        /\ calls[c].connectError
        /\ calls[c].pc = "returned"
        /\ calls[c].previousFiles # None
        /\ FileCount(Get(calls[c].previousFiles)) = 2
        /\ project[calls[c].projectId].activeSandboxId = calls[c].sandbox
        /\ isLive(Get(calls[c].sandbox))

\* C7: a call whose connection attempt succeeded returns the stored id with
\* isReused = TRUE; it created no environment, wrote no file and computed no
\* expiry, and the step that returns leaves the project rows and the remote
\* environments unchanged.
C7_ReuseResult ==
    \A c \in CallIds :
        /\ (calls[c].pc = "returned" /\ calls[c].active /\ ~calls[c].connectError) =>
              /\ calls[c].result =
                    Some([ sandboxId |-> Get(Get(calls[c].row).activeSandboxId),
                           isReused |-> TRUE ])
              /\ calls[c].sandbox = None
              /\ calls[c].written = {}
              /\ calls[c].sandboxExpiresAt = None
        /\ (calls[c].pc = "returned" /\ Get(calls[c].result).isReused) =>
              calls[c].active /\ ~calls[c].connectError

C7_ReuseFrame ==
    \A c \in CallIds :
        (calls[c].pc = "connect" /\ calls'[c].pc = "returned") =>
            /\ project' = project
            /\ sandboxes' = sandboxes
            /\ created' = created

C7_ReuseLeavesEverythingUnchanged == []C7_ReuseResult /\ [][C7_ReuseFrame]_vars

\* C7 witness: an environment that holds none of the supplied files is returned
\* as reused
C7_Witness ==
    \E c \in CallIds :
        /\ calls[c].pc = "returned"
        /\ Get(calls[c].result).isReused
        /\ calls[c].previousFiles # None
        /\ FileCount(Get(calls[c].previousFiles)) = 2
        /\ isLive(Get(calls[c].result).sandboxId)
        /\ sandboxes[Get(calls[c].result).sandboxId].files = EmptyFiles

\* C8: the expiry a creating call stores is the clock at the creation of the
\* environment plus the 5-minute horizon.
C8_ExpiryIsCreationPlusHorizon ==
    \A c \in CallIds :
        (calls[c].pc \in { "update", "returned" } /\ calls[c].sandbox # None) =>
            calls[c].sandboxExpiresAt = Some(Get(calls[c].createdAt) + SandboxTimeoutMs)

\* C9: once the resync of a non-empty snapshot into a new environment has
\* completed, reading any path of the snapshot from that environment yields the
\* snapshot's content.
C9_ResyncRoundTrip ==
    \A c \in CallIds :
        ( /\ calls[c].pc \in { "update", "returned" }
          /\ calls[c].sandbox # None
          /\ isLive(Get(calls[c].sandbox)) ) =>
            \A path \in SnapshotPaths(calls[c].previousFiles) :
                readFile(Get(calls[c].sandbox), path) = Some(Get(calls[c].previousFiles)[path])

\* C9 witness: a two-file snapshot has been resynced and is readable
C9_Witness ==
    \E c \in CallIds :
        /\ calls[c].pc = "update"
        /\ calls[c].previousFiles # None
        /\ FileCount(Get(calls[c].previousFiles)) = 2
        /\ \A path \in SnapshotPaths(calls[c].previousFiles) :
              readFile(Get(calls[c].sandbox), path) = Some(Get(calls[c].previousFiles)[path])

\* C10: a call in which a file write of the resync failed ends by throwing that
\* error: it computes no expiry, stores nothing and returns nothing; a call that
\* returns a new environment has written every path of the snapshot.
C10_WriteErrorPropagates ==
    \A c \in CallIds :
        /\ calls[c].writeError =>
              /\ calls[c].pc = "thrown"
              /\ calls[c].error = Some("write")
              /\ calls[c].result = None
              /\ calls[c].sandboxExpiresAt = None
        /\ (calls[c].pc = "returned" /\ ~Get(calls[c].result).isReused) =>
              calls[c].written = SnapshotPaths(calls[c].previousFiles)

\* C10 witness: the second write of a resync failed and the call threw; the
\* project row does not reference the partly synced environment
C10_Witness ==
    \E c \in CallIds :
        /\ calls[c].writeError
        /\ calls[c].pc = "thrown"
        /\ Cardinality(calls[c].written) = 1
        /\ project[calls[c].projectId].activeSandboxId # calls[c].sandbox

(***************************************************************************)
(* The message store and the request layer of RunProject                   *)
(* (messages.create, projects.create).                                     *)
(***************************************************************************)
\* rounds 1..k of a project that was built earlier: a USER turn and the
\* ASSISTANT/RESULT turn answering it, created after `base` older rows
RECURSIVE SeedTurns(_, _, _, _, _)
SeedTurns(projectId, sandboxId, k, base, files) ==
    IF k = 0 THEN {}
    ELSE SeedTurns(projectId, sandboxId, k - 1, base, files)
         \cup { Message(projectId, "USER", "RESULT", "build a todo app",
                        base + 2 * k - 1, None),
                Message(projectId, "ASSISTANT", "RESULT", TaskSummaryText,
                        base + 2 * k, Some(Fragment(sandboxUrlOf(sandboxId), files))) }

\* the environment the round of the other project ran in: getOrCreateProjectSandbox
\* creates one environment per project row. It has expired since and the
\* cleanup has cleared its reference
OtherSandbox == "sbx0"

\* a store that holds one round of another project and SeedRounds rounds of
\* RunProject, each project with the preview URL of its own environment
SeedStore ==
    SeedTurns("p2", OtherSandbox, 1, 0, [p \in {"a.txt"} |-> "9"])
    \cup SeedTurns(RunProject, SandboxId(1), SeedRounds, 2, [p \in {"a.txt"} |-> "1"])

\* createdAt of the next row: rows are never deleted
nextCreatedAt == Cardinality(messages) + 1

TurnsOf(projectId) == { m \in messages : m.projectId = projectId }

UserTurns(projectId) == { m \in TurnsOf(projectId) : m.role = "USER" }

\* messages.create({ value, projectId }) up to its second await:
\* prisma.message.create resolves with the USER row; inngest.send is issued.
\* Nothing holds a request back while an execution is in progress.
CreateMessage(value) ==
    /\ messages' = messages \cup
          { Message(RunProject, "USER", "RESULT", value, nextCreatedAt, None) }
    /\ sends' = sends + 1
    /\ UNCHANGED << events, runPc, projectContext, run, sbxVars >>

\* projects.create({ value }) up to its second await: prisma.project.create
\* resolves with the project, its reference columns null, and its nested first
\* USER row; inngest.send is issued
CreateProject(value) ==
    /\ TurnsOf(RunProject) = {}
    /\ project[RunProject] = [ activeSandboxId |-> None, sandboxExpiresAt |-> None ]
    /\ messages' = messages \cup
          { Message(RunProject, "USER", "RESULT", value, nextCreatedAt, None) }
    /\ sends' = sends + 1
    /\ UNCHANGED << events, runPc, projectContext, run, sbxVars >>

\* await inngest.send({ name: "code-agent/run", data }) resolves: the event is
\* with the engine and the mutation returns the row
SendEvent ==
    /\ sends > 0
    /\ sends' = sends - 1
    /\ events' = events + 1
    /\ UNCHANGED << messages, runPc, projectContext, run, sbxVars >>

\* await inngest.send rejects: the mutation throws, the row stays in the store
SendEventRejects ==
    /\ sends > 0
    /\ sends' = sends - 1
    /\ UNCHANGED << messages, events, runPc, projectContext, run, sbxVars >>

\* the executions the engine runs side by side; the function is created
\* without a concurrency limit, the model follows as many as it has slots
Execs == DOMAIN runPc

\* the slot the next execution takes: the first one that is free
FreeExec(e) ==
    /\ runPc[e] = "idle"
    /\ e # "run1" => runPc["run1"] # "idle"

\* no execution is in progress
NoExecution == \A e \in Execs : runPc[e] = "idle"

\* the engine delivers a code-agent/run event of the project: the handler of
\* codeAgentFunction is invoked, whatever other executions are doing
Run_Event(e) ==
    /\ FreeExec(e)
    /\ events > 0
    /\ events' = events - 1
    /\ runPc' = [ runPc EXCEPT ![e] = "build-context" ]
    /\ run' = [ run EXCEPT ![e].fn = "code-agent" ]
    /\ UNCHANGED << messages, sends, projectContext, sbxVars >>

\* step.run("build-context"): getProjectMessageHistory resolves and
\* buildProjectContext is applied to it
BuildContext(e) ==
    /\ runPc[e] = "build-context"
    /\ LET context == buildProjectContext(getProjectMessageHistory(RunProject, DefaultLimit))
       IN  /\ projectContext' = [ projectContext EXCEPT ![e] = Some(context) ]
           /\ run' = [ run EXCEPT ![e].snapshot = Some(context.currentFiles) ]
    /\ runPc' = [ runPc EXCEPT ![e] = "get-or-create-sandbox" ]
    /\ UNCHANGED << messages, sends, events, sbxVars >>

\* mutant: the file count is not looked at
isErrorSummaryOnly(summaryStored, files) == ~summaryStored

\* mutant: the two conditions are joined by &&
isErrorConjunction(summaryStored, files) == ~summaryStored /\ FileCount(files) = 0

\* const isError = !summary || Object.keys(files || {}).length === 0
isError(summaryStored, files) == ~summaryStored \/ FileCount(files) = 0

\* mutant: the fragment is created on the error branch too
saveResultRowWithFragment(summary, files, sandboxUrl) ==
    Message(RunProject, "ASSISTANT",
            IF summary = None \/ FileCount(files) = 0 THEN "ERROR" ELSE "RESULT",
            IF summary = None \/ FileCount(files) = 0 THEN GenericErrorText ELSE Get(summary),
            nextCreatedAt, Some(Fragment(sandboxUrl, files)))

\* mutant: the RESULT row gets a fixed text instead of the stored summary
saveResultRowFixedContent(summary, files, sandboxUrl) ==
    IF isError(summary # None, files)
    THEN Message(RunProject, "ASSISTANT", "ERROR", GenericErrorText, nextCreatedAt, None)
    ELSE Message(RunProject, "ASSISTANT", "RESULT", TaskSummaryText, nextCreatedAt,
                 Some(Fragment(sandboxUrl, files)))

\* the row step.run("save-result") creates from result.state.data.summary (None:
\* undefined), result.state.data.files || {} and the URL of get-sandbox-url
saveResultRow(summary, files, sandboxUrl) ==
    IF isError(summary # None, files)
    THEN Message(RunProject, "ASSISTANT", "ERROR", GenericErrorText, nextCreatedAt, None)
    ELSE Message(RunProject, "ASSISTANT", "RESULT", Get(summary), nextCreatedAt,
                 Some(Fragment(sandboxUrl, files)))

(***************************************************************************)
(* One workflow execution in detail (codeAgentFunction): the steps, the    *)
(* agent network, its three tools and the error handling.                  *)
(***************************************************************************)
\* maxIter: 15
MaxIter == 15

\* the substrings isSandboxError looks for
SandboxErrorKeywords ==
    { "unexpected eof", "connection refused", "connection reset", "sandbox not found",
      "timeout", "econnreset", "enotfound", "network error", "502 bad gateway",
      "503 service unavailable", "504 gateway timeout" }

\* values a failing call can throw: an Error object or a bare string, with the
\* text String(value) gives
ThrownValues ==
    { [ isObject |-> TRUE,  text |-> "Error: read ECONNRESET" ],
      [ isObject |-> TRUE,  text |-> "Error: exit status 1" ],
      [ isObject |-> FALSE, text |-> "timeout" ] }

\* isSandboxError(error)
isSandboxError(error) ==
    IF ~error.isObject THEN FALSE
    ELSE LET errorMessage == toLowerCase(error.text)
         IN  \E kw \in SandboxErrorKeywords : includes(errorMessage, kw)

\* what the handler returns to the model: terminal and readFiles return their
\* step's value, createOrUpdateFiles has no return statement (None: undefined)
handlerReturn(tool, value) ==
    IF tool = "createOrUpdateFiles" THEN None ELSE Some(value)

\* what a tool's step returned: a string or an object, with the value caught on
\* the way (None when nothing was thrown), the buffers gathered until then and
\* what the handler returned
ToolResult(tool, thrown, type, value) ==
    [ tool |-> tool, thrown |-> thrown, buffers |-> [ stdout |-> "", stderr |-> "" ],
      type |-> type, value |-> value, returned |-> handlerReturn(tool, value) ]

\* the sentence the three tools return for a sandbox error
RetryHintText == "Sandbox connection lost. The environment may have timed out. Please retry your request."

\* what the model can answer in one agent invocation: the messages of
\* result.output; a tool_call message is assistant-authored and has no content
\* content is a string or an array of text parts
TextMessage(content) ==
    [ role |-> "assistant", type |-> "text",
      content |-> Some([ isString |-> TRUE, parts |-> << content >> ]) ]

TextPartsMessage(parts) ==
    [ role |-> "assistant", type |-> "text",
      content |-> Some([ isString |-> FALSE, parts |-> parts ]) ]

ToolCallMessage == [ role |-> "assistant", type |-> "tool_call", content |-> None ]

Outputs ==
    { << TextMessage("working on it") >>,
      << TextMessage(TaskSummaryText) >>,
      << TextMessage(TaskSummaryText), ToolCallMessage >>,
      << ToolCallMessage >>,
      << ToolCallMessage,
         TextPartsMessage(<< "added b.txt ", "<task_", "summary>b</task_summary>" >>) >> }

\* lastAssistantTextMessageContent(result): the content of the last message
\* whose role is "assistant" (a string, or the joined text of its parts), or
\* None (undefined)
lastAssistantTextMessageContent(output) ==
    LET idx == { i \in 1..Len(output) : output[i].role = "assistant" }
    IN  IF idx = {} THEN None
        ELSE LET last    == CHOOSE i \in idx : \A j \in idx : j <= i
                 content == output[last].content
             IN  IF content = None THEN None
                 ELSE IF Get(content).isString
                      THEN IF Get(content).parts[1] = "" THEN None
                           ELSE Some(Get(content).parts[1])
                      ELSE Some(join(Get(content).parts, ""))

\* mutant: onResponse stores any assistant text as the summary
onResponseAnyText(output, summary) ==
    LET text == lastAssistantTextMessageContent(output)
    IN  IF text # None /\ Get(text) # "" THEN text ELSE summary

\* lifecycle.onResponse: network.state.data.summary after the response
onResponse(output, summary) ==
    LET text == lastAssistantTextMessageContent(output)
    IN  IF text # None /\ Get(text) # "" /\ includes(Get(text), "<task_summary>")
        THEN text ELSE summary

\* terminal commands and what they do to the files of the environment
Commands == { "npm install", "rm a.txt" }

commandEffect(command, files) ==
    IF command = "rm a.txt"
    THEN [ p \in (DOMAIN files) \ { "a.txt" } |-> files[p] ]
    ELSE files

\* outcomes of sandbox.commands.run: the result, or the error thrown with what
\* the callbacks had gathered
TerminalOutcomes ==
    { [ ok |-> TRUE, stdout |-> "done", stderr |-> "" ] }
    \cup { [ ok |-> FALSE, error |-> e, stdout |-> "installing", stderr |-> "sh: 1" ] :
              e \in ThrownValues }

\* mutant: the terminal tool returns the raw error for every failure
terminalRawError(outcome) ==
    IF outcome.ok THEN outcome.stdout
    ELSE "Command failed: " \o outcome.error.text \o " \nstdout: " \o outcome.stdout
            \o " \nstderr: " \o outcome.stderr

\* the string the terminal handler's step returns
terminal(outcome) ==
    IF outcome.ok THEN outcome.stdout
    ELSE IF isSandboxError(outcome.error)
         THEN RetryHintText
         ELSE "Command failed: " \o outcome.error.text \o " \nstdout: " \o outcome.stdout
                 \o " \nstderr: " \o outcome.stderr

\* files arguments of createOrUpdateFiles
File(path, content) == [ path |-> path, content |-> content ]

\* a file content with a quote, a line break and a backslash
QuotedContent == "say \"hi\"\n\\ok"

FileLists ==
    { << >>,
      << File("a.txt", QuotedContent) >>,
      << File("b.txt", "2") >>,
      << File("a.txt", "2"), File("b.txt", "2") >>,
      << File("b.txt", "1"), File("b.txt", "2") >> }

\* updatedFiles after the first n files of the list were written:
\* updatedFiles[file.path] = file.content
RECURSIVE writeAll(_, _, _)
writeAll(files, list, n) ==
    IF n = 0 THEN files
    ELSE MergeFiles(writeAll(files, list, n - 1),
                    [ p \in { list[n].path } |-> list[n].content ])

\* mutant: a completed call replaces the accumulator by the files it listed
filesAfterWriteListedOnly(files, list, n, returned) ==
    IF returned THEN Some(writeAll(EmptyFiles, list, n)) ELSE files

\* network.state.data.files once a createOrUpdateFiles call that found the
\* accumulator `files` has written the first n files of its list: updatedFiles
\* is the accumulator object itself when there is one and a new object
\* otherwise, which the handler assigns only when the step has returned it
filesAfterWrite(files, list, n, returned) ==
    IF files # None
    THEN Some(writeAll(Get(files), list, n))
    ELSE IF returned THEN Some(writeAll(EmptyFiles, list, n)) ELSE None

\* network.state.data.files as the execution has it after that write under
\* the engine: in the handler's memory the files are those of filesAfterWrite;
\* under a checkpointing engine the accumulator stays the one the memoised
\* steps gave (files) until the step returns its object, which line 285 assigns
stepFiles(engine, files, list, n, returned) ==
    IF engine = "checkpoint" /\ ~returned
    THEN files
    ELSE filesAfterWrite(files, list, n, returned)

\* what the createOrUpdateFiles step returns on an error
writeErrorResult(error) ==
    IF isSandboxError(error) THEN RetryHintText ELSE "Error: " \o error.text

\* paths arguments of readFiles
PathLists == { << >>, << "a.txt" >>, << "a.txt", "b.txt" >> }

\* the characters JSON.stringify copies as they are, among printable ASCII
JsonPlain == PrintableAscii \ { "\"", "\\" }

\* JSON.stringify of one character of a string: the quote, the backslash and
\* the control characters are escaped. It is defined on printable ASCII and
\* the four control characters a string of this module can hold; the other
\* control characters (escaped as \b or \u00XX by JavaScript) have no value here
jsonEscapeChar(c) ==
    CASE c = "\"" -> "\\\""
      [] c = "\\" -> "\\\\"
      [] c = "\n" -> "\\n"
      [] c = "\r" -> "\\r"
      [] c = "\t" -> "\\t"
      [] c = "\f" -> "\\f"
      [] c \in JsonPlain -> c

RECURSIVE jsonEscape(_)
jsonEscape(s) ==
    IF Len(s) = 0 THEN ""
    ELSE IF Len(s) = 1 THEN jsonEscapeChar(s)
    ELSE LET half == Len(s) \div 2
         IN  jsonEscape(SubSeq(s, 1, half)) \o jsonEscape(SubSeq(s, half + 1, Len(s)))

\* JSON.stringify of a string
jsonString(s) == "\"" \o jsonEscape(s) \o "\""

\* JSON.stringify of the first n elements of contents, without the brackets
RECURSIVE stringifyElements(_, _)
stringifyElements(contents, n) ==
    IF n = 0 THEN ""
    ELSE stringifyElements(contents, n - 1)
         \o (IF n > 1 THEN "," ELSE "")
         \o "{\"path\":" \o jsonString(contents[n].path)
         \o ",\"content\":" \o jsonString(contents[n].content) \o "}"

\* JSON.stringify(contents), contents the { path, content } objects pushed
stringifyContents(contents) == "[" \o stringifyElements(contents, Len(contents)) \o "]"

\* what the readFiles step returns on an error
readErrorResult(error) ==
    IF isSandboxError(error) THEN RetryHintText ELSE "Error reading files: " \o error.text

\* the tools of helloWorld (functions.ts) have no isSandboxError branch
helloTerminal(outcome) ==
    IF outcome.ok THEN outcome.stdout
    ELSE "Command failed: " \o outcome.error.text \o " \nstout: " \o outcome.stdout
            \o " \nstderr: " \o outcome.stderr

helloWriteErrorResult(error) == "Error: " \o error.text

helloReadErrorResult(error) == "Error reading files: " \o error.text

\* the tool calls a response can carry: the tool and its arguments
TerminalCall(command) ==
    [ tool |-> "terminal", command |-> command, files |-> << >>, paths |-> << >> ]

WriteCall(list) ==
    [ tool |-> "createOrUpdateFiles", command |-> "", files |-> list, paths |-> << >> ]

ReadCall(paths) ==
    [ tool |-> "readFiles", command |-> "", files |-> << >>, paths |-> paths ]

ToolCalls ==
    { TerminalCall(command) : command \in Commands }
    \cup { WriteCall(list) : list \in FileLists }
    \cup { ReadCall(paths) : paths \in PathLists }

\* a tool handler that has been entered: updatedFiles is taken from the
\* accumulator (before), nothing is connected, written or read yet
pendingCall(call, files) ==
    [ tool |-> call.tool, command |-> call.command, files |-> call.files,
      paths |-> call.paths,
      before |-> files,        \* network.state.data.files when the handler started
      connected |-> FALSE,     \* getSandBox has resolved
      n |-> 0,                 \* files written or read so far
      contents |-> << >> ]     \* readFiles: the { path, content } objects pushed

\* getLatestProjectFiles(projectId) of sandbox-manager.ts: the files of the
\* newest fragment of an ASSISTANT/RESULT message, or None (undefined)
latestFragmentFiles(projectId) ==
    LET rows == { m \in messages : /\ m.projectId = projectId
                                   /\ m.role = "ASSISTANT"
                                   /\ m.type = "RESULT"
                                   /\ m.fragment # None }
    IN  IF rows = {} THEN None
        ELSE LET latest == CHOOSE m \in rows : \A o \in rows : o.createdAt <= m.createdAt
             IN  Some(Get(latest.fragment).files)

\* previousFiles of the get-or-create-sandbox step: the context's files, or
\* what getLatestProjectFiles resolved with
previousFilesOf(context, latest) ==
    IF context.hasContext THEN Some(context.currentFiles) ELSE latest

\* the environment the execution acquired
runSandbox(e) == Get(run[e].sandboxId)

\* the execution's function has thrown at `stepName`
failedRun(r, stepName) == [ r EXCEPT !.failedAt = Some(stepName) ]

\* step build-context fails: the storage error leaves the function
Run_BuildContextThrows(e) ==
    /\ runPc[e] = "build-context"
    /\ runPc' = [ runPc EXCEPT ![e] = "failed" ]
    /\ run' = [ run EXCEPT ![e] = failedRun(@, "build-context") ]
    /\ UNCHANGED << messages, sends, events, projectContext, sbxVars >>

\* step get-or-create-sandbox without context: await getLatestProjectFiles
\* resolves (prisma.fragment.findFirst)
Run_GetLatestProjectFiles(e) ==
    /\ runPc[e] = "get-or-create-sandbox"
    /\ ~Get(projectContext[e]).hasContext
    /\ run[e].previousFiles = None
    /\ run' = [ run EXCEPT ![e].previousFiles = Some(latestFragmentFiles(RunProject)) ]
    /\ UNCHANGED << messages, sends, events, runPc, projectContext, sbxVars >>

\* getLatestProjectFiles rejects: the storage error leaves the function
Run_GetLatestProjectFilesThrows(e) ==
    /\ runPc[e] = "get-or-create-sandbox"
    /\ ~Get(projectContext[e]).hasContext
    /\ run[e].previousFiles = None
    /\ runPc' = [ runPc EXCEPT ![e] = "failed" ]
    /\ run' = [ run EXCEPT ![e] = failedRun(@, "get-or-create-sandbox") ]
    /\ UNCHANGED << messages, sends, events, projectContext, sbxVars >>

\* step get-or-create-sandbox: getOrCreateProjectSandbox(projectId, previousFiles)
\* is called and its findUnique resolves
Run_GetOrCreateSandbox(e) ==
    /\ runPc[e] = "get-or-create-sandbox"
    /\ Get(projectContext[e]).hasContext \/ run[e].previousFiles # None
    /\ GOC_FindUnique(e, RunProject,
                      previousFilesOf(Get(projectContext[e]),
                                      IF run[e].previousFiles = None THEN None
                                      ELSE Get(run[e].previousFiles)))

\* the step resolves with { sandboxId, isReused }
Run_SandboxAcquired(e) ==
    /\ runPc[e] = "get-or-create-sandbox"
    /\ calls[e].pc = "returned"
    /\ run' = [ run EXCEPT ![e].sandboxId = Some(Get(calls[e].result).sandboxId),
                           ![e].isReused = Get(calls[e].result).isReused ]
    /\ calls' = [ calls EXCEPT ![e] = idleCall ]
    /\ runPc' = [ runPc EXCEPT ![e] = "router" ]
    /\ UNCHANGED << messages, sends, events, projectContext, now, project, sandboxes,
                    created, cleanup, passLog >>

\* the step rejects: creation or resync threw, the error leaves the function
Run_SandboxThrows(e) ==
    /\ runPc[e] = "get-or-create-sandbox"
    /\ calls[e].pc = "thrown"
    /\ run' = [ run EXCEPT ![e] = failedRun(@, "get-or-create-sandbox") ]
    /\ calls' = [ calls EXCEPT ![e] = idleCall ]
    /\ runPc' = [ runPc EXCEPT ![e] = "failed" ]
    /\ UNCHANGED << messages, sends, events, projectContext, now, project, sandboxes,
                    created, cleanup, passLog >>

\* mutant: the router never seeds the accumulator
seededFilesNever(context, files) == files

\* router: if (projectContext.hasContext && !network.state.data.files) seed
seededFiles(context, files) ==
    IF context.hasContext /\ files = None THEN Some(context.currentFiles) ELSE files

\* mutant: the router does not look at the summary
routerNextIgnoresSummary(r) == IF r.iter >= MaxIter THEN "get-sandbox-url" ELSE "agent"

\* router and maxIter: where network.run goes after a decision step
routerNext(r) ==
    IF r.summary # None \/ r.iter >= MaxIter THEN "get-sandbox-url" ELSE "agent"

\* the decision step of the network of codeAgentFunction
Run_Router(e) ==
    /\ runPc[e] = "router"
    /\ run[e].fn = "code-agent"
    /\ run' = [ run EXCEPT ![e].files = seededFiles(Get(projectContext[e]), @),
                           ![e].response = << >>,
                           ![e].toolResult = None ]
    /\ runPc' = [ runPc EXCEPT ![e] = routerNext(run[e]) ]
    /\ UNCHANGED << messages, sends, events, projectContext, sbxVars >>

HasToolCall(output) == \E i \in 1..Len(output) : output[i].type = "tool_call"

\* the run when model.infer has resolved with a response: lifecycle.onResponse
afterResponse(r, output) ==
    [ r EXCEPT !.response = output, !.summary = onResponse(output, @) ]

\* mutant: the network does not count its agent calls
afterInvocationUncounted(r) == r

\* the run when agent.run has returned to the network: the call counter
afterInvocation(r) == [ r EXCEPT !.iter = @ + 1 ]

\* the run when the handler of the pending tool call has returned `result`
afterTool(r, result) ==
    afterInvocation([ r EXCEPT !.toolResult = Some(result), !.call = None ])

\* an agent invocation whose response calls no tool
Run_AgentNoTool(e, output) ==
    /\ runPc[e] = "agent"
    /\ ~HasToolCall(output)
    /\ run' = [ run EXCEPT ![e] = afterInvocation(afterResponse(@, output)) ]
    /\ runPc' = [ runPc EXCEPT ![e] = "router" ]
    /\ UNCHANGED << messages, sends, events, projectContext, sbxVars >>

\* model.infer resolves with a response that calls a tool: onResponse has run,
\* the handler of the tool is entered
Run_AgentCallsTool(e, output, call) ==
    /\ runPc[e] = "agent"
    /\ HasToolCall(output)
    /\ run' = [ run EXCEPT ![e] =
                  [ afterResponse(@, output) EXCEPT !.call = Some(pendingCall(call, run[e].files)) ] ]
    /\ runPc' = [ runPc EXCEPT ![e] = "tool" ]
    /\ UNCHANGED << messages, sends, events, projectContext, sbxVars >>

\* network.state.data.files || {}
filesOrEmpty(files) == IF files = None THEN EmptyFiles ELSE Get(files)

\* the handler of the pending call of an execution
pending(e) == Get(run[e].call)

\* the accumulator of the execution is the currentFiles object of its context:
\* the router assigned that object, the tool writes into it. Under a
\* checkpointing engine the context is the memoised result of build-context
\* and no write shows in it
sharesContextFiles(e) ==
    /\ run[e].engine = "in-process"
    /\ projectContext[e] # None
    /\ Get(projectContext[e]).hasContext
    /\ run[e].files # None

\* the string the catch block of a tool's step returns
caughtResult(fn, call, error) ==
    LET outcome == [ ok |-> FALSE, error |-> error, stdout |-> "", stderr |-> "" ]
    IN  IF call.tool = "terminal"
        THEN IF fn = "code-agent" THEN terminal(outcome) ELSE helloTerminal(outcome)
        ELSE IF call.tool = "createOrUpdateFiles"
        THEN IF fn = "code-agent" THEN writeErrorResult(error) ELSE helloWriteErrorResult(error)
        ELSE IF fn = "code-agent" THEN readErrorResult(error) ELSE helloReadErrorResult(error)

\* await getSandBox(sandboxId) of the tool resolves; a createOrUpdateFiles or
\* readFiles call with nothing listed has no further await and returns
Run_ToolConnect(e) ==
    /\ runPc[e] = "tool"
    /\ ~pending(e).connected
    /\ isLive(runSandbox(e))
    /\ LET call == pending(e)
       IN  IF call.tool = "createOrUpdateFiles" /\ Len(call.files) = 0
           THEN /\ run' = [ run EXCEPT ![e] =
                              afterTool([ @ EXCEPT !.files = Some(filesOrEmpty(call.before)) ],
                                        ToolResult("createOrUpdateFiles", None, "object",
                                                   filesOrEmpty(call.before))) ]
                /\ runPc' = [ runPc EXCEPT ![e] = "router" ]
           ELSE IF call.tool = "readFiles" /\ Len(call.paths) = 0
           THEN /\ run' = [ run EXCEPT ![e] =
                              afterTool(@, ToolResult("readFiles", None, "string",
                                                      stringifyContents(<< >>))) ]
                /\ runPc' = [ runPc EXCEPT ![e] = "router" ]
           ELSE /\ run' = [ run EXCEPT ![e].call = Some([ call EXCEPT !.connected = TRUE ]) ]
                /\ UNCHANGED runPc
    /\ UNCHANGED << messages, sends, events, projectContext, sbxVars >>

\* await getSandBox(sandboxId) of the tool rejects: the catch block of the step
\* returns a string
Run_ToolConnectThrows(e, error) ==
    /\ runPc[e] = "tool"
    /\ ~pending(e).connected
    /\ run' = [ run EXCEPT ![e] =
                  afterTool(@, ToolResult(pending(e).tool, Some(error), "string",
                                          caughtResult(@.fn, pending(e), error))) ]
    /\ runPc' = [ runPc EXCEPT ![e] = "router" ]
    /\ UNCHANGED << messages, sends, events, projectContext, sbxVars >>

\* terminal: await sandbox.commands.run(command) resolves, or rejects with what
\* the callbacks had gathered
Run_TerminalRun(e, outcome) ==
    /\ runPc[e] = "tool"
    /\ pending(e).tool = "terminal"
    /\ pending(e).connected
    /\ outcome.ok => isLive(runSandbox(e))
    /\ run' = [ run EXCEPT ![e] =
                  afterTool(@, [ ToolResult("terminal",
                                            IF outcome.ok THEN None ELSE Some(outcome.error),
                                            "string",
                                            IF @.fn = "code-agent" THEN terminal(outcome)
                                            ELSE helloTerminal(outcome))
                                 EXCEPT !.buffers = [ stdout |-> outcome.stdout,
                                                      stderr |-> outcome.stderr ] ]) ]
    /\ sandboxes' = IF outcome.ok
                    THEN [ sandboxes EXCEPT ![runSandbox(e)].files =
                              commandEffect(pending(e).command, @) ]
                    ELSE sandboxes
    /\ runPc' = [ runPc EXCEPT ![e] = "router" ]
    /\ UNCHANGED << messages, sends, events, projectContext, now, project, created, calls,
                    cleanup, passLog >>

\* createOrUpdateFiles: one await sandbox.files.write(file.path, file.content)
\* resolves and updatedFiles[file.path] = file.content is assigned; after the
\* last file the step returns updatedFiles and the handler assigns it
Run_WriteFile(e) ==
    /\ runPc[e] = "tool"
    /\ pending(e).tool = "createOrUpdateFiles"
    /\ pending(e).connected
    /\ pending(e).n < Len(pending(e).files)
    /\ isLive(runSandbox(e))
    /\ LET call     == pending(e)
           k        == call.n + 1
           file     == call.files[k]
           returned == k = Len(call.files)
           files    == stepFiles(run[e].engine, call.before, call.files, k, returned)
           written  == MergeFiles(run[e].written, [ p \in { file.path } |-> file.content ])
           committed == writeAll(run[e].committed, call.files, k)
       IN  /\ sandboxes' = writeFile(runSandbox(e), file.path, file.content)
           /\ run' = [ run EXCEPT ![e] =
                         IF returned
                         THEN afterTool([ @ EXCEPT !.files = files, !.written = written,
                                                   !.committed = committed ],
                                        ToolResult("createOrUpdateFiles", None, "object",
                                                   Get(files)))
                         ELSE [ @ EXCEPT !.files = files, !.written = written,
                                         !.call = Some([ call EXCEPT !.n = k ]) ] ]
           /\ projectContext' =
                 IF sharesContextFiles(e)
                 THEN [ projectContext EXCEPT ![e] =
                          Some([ Get(@) EXCEPT !.currentFiles = Get(files) ]) ]
                 ELSE projectContext
           /\ runPc' = [ runPc EXCEPT ![e] = IF returned THEN "router" ELSE "tool" ]
    /\ UNCHANGED << messages, sends, events, now, project, created, calls, cleanup, passLog >>

\* createOrUpdateFiles: await sandbox.files.write rejects; the catch block of
\* the step returns a string, which the handler does not assign. The
\* accumulator is what the earlier writes of the call left (stepFiles)
Run_WriteFileThrows(e, error) ==
    /\ runPc[e] = "tool"
    /\ pending(e).tool = "createOrUpdateFiles"
    /\ pending(e).connected
    /\ pending(e).n < Len(pending(e).files)
    /\ run' = [ run EXCEPT ![e] =
                  afterTool(@, ToolResult("createOrUpdateFiles", Some(error), "string",
                                          caughtResult(@.fn, pending(e), error))) ]
    /\ runPc' = [ runPc EXCEPT ![e] = "router" ]
    /\ UNCHANGED << messages, sends, events, projectContext, sbxVars >>

\* readFiles: one await sandbox.files.read(file) resolves and { path, content }
\* is pushed; after the last file the step returns JSON.stringify(contents)
Run_ReadFile(e) ==
    /\ runPc[e] = "tool"
    /\ pending(e).tool = "readFiles"
    /\ pending(e).connected
    /\ pending(e).n < Len(pending(e).paths)
    /\ readFile(runSandbox(e), pending(e).paths[pending(e).n + 1]) # None
    /\ LET call     == pending(e)
           k        == call.n + 1
           contents == Append(call.contents,
                              [ path |-> call.paths[k],
                                content |-> Get(readFile(runSandbox(e), call.paths[k])) ])
       IN  IF k = Len(call.paths)
           THEN /\ run' = [ run EXCEPT ![e] =
                              afterTool(@, ToolResult("readFiles", None, "string",
                                                      stringifyContents(contents))) ]
                /\ runPc' = [ runPc EXCEPT ![e] = "router" ]
           ELSE /\ run' = [ run EXCEPT ![e].call =
                              Some([ call EXCEPT !.n = k, !.contents = contents ]) ]
                /\ UNCHANGED runPc
    /\ UNCHANGED << messages, sends, events, projectContext, sbxVars >>

\* readFiles: await sandbox.files.read rejects (no such file, environment gone)
Run_ReadFileThrows(e, error) ==
    /\ runPc[e] = "tool"
    /\ pending(e).tool = "readFiles"
    /\ pending(e).connected
    /\ pending(e).n < Len(pending(e).paths)
    /\ run' = [ run EXCEPT ![e] =
                  afterTool(@, ToolResult("readFiles", Some(error), "string",
                                          caughtResult(@.fn, pending(e), error))) ]
    /\ runPc' = [ runPc EXCEPT ![e] = "router" ]
    /\ UNCHANGED << messages, sends, events, projectContext, sbxVars >>

\* mutant: every error of network.run is answered with the environment message
afterRunErrorSwallow(error) == "save-sandbox-error"

\* mutant: every error of network.run is re-thrown
afterRunErrorRethrow(error) == "failed"

\* catch (error) of network.run: a sandbox error goes to save-sandbox-error,
\* any other error is re-thrown
afterRunError(error) == IF isSandboxError(error) THEN "save-sandbox-error" ELSE "failed"

\* network.run throws: an error no tool boundary caught (the inference call)
Run_AgentThrows(e, error) ==
    /\ runPc[e] = "agent"
    /\ run[e].fn = "code-agent"
    /\ runPc' = [ runPc EXCEPT ![e] = afterRunError(error) ]
    /\ run' = [ run EXCEPT ![e] =
                  IF afterRunError(error) = "failed"
                  THEN failedRun([ @ EXCEPT !.thrown = Some(error) ], "agent")
                  ELSE [ @ EXCEPT !.thrown = Some(error) ] ]
    /\ UNCHANGED << messages, sends, events, projectContext, sbxVars >>

\* step save-sandbox-error, then the function returns
Run_SaveSandboxError(e) ==
    /\ runPc[e] = "save-sandbox-error"
    /\ LET row == Message(RunProject, "ASSISTANT", "ERROR", SandboxErrorText, nextCreatedAt, None)
       IN  /\ messages' = messages \cup { row }
           /\ run' = [ run EXCEPT ![e].turns = @ \cup { row } ]
    /\ runPc' = [ runPc EXCEPT ![e] = "done" ]
    /\ UNCHANGED << sends, events, projectContext, sbxVars >>

\* step get-sandbox-url resolves
Run_GetSandboxUrl(e) ==
    /\ runPc[e] = "get-sandbox-url"
    /\ run[e].fn = "code-agent"
    /\ isLive(runSandbox(e))
    /\ run' = [ run EXCEPT ![e].sandboxUrl = Some(sandboxUrlOf(runSandbox(e))) ]
    /\ runPc' = [ runPc EXCEPT ![e] = "save-result" ]
    /\ UNCHANGED << messages, sends, events, projectContext, sbxVars >>

\* step get-sandbox-url rejects (getSandBox cannot connect): the error leaves
\* the function
Run_GetSandboxUrlThrows(e) ==
    /\ runPc[e] = "get-sandbox-url"
    /\ run' = [ run EXCEPT ![e] = failedRun(@, "get-sandbox-url") ]
    /\ runPc' = [ runPc EXCEPT ![e] = "failed" ]
    /\ UNCHANGED << messages, sends, events, projectContext, sbxVars >>

\* step save-result, then the function returns
Run_SaveResult(e) ==
    /\ runPc[e] = "save-result"
    /\ LET row == saveResultRow(run[e].summary, filesOrEmpty(run[e].files),
                                Get(run[e].sandboxUrl))
       IN  /\ messages' = messages \cup { row }
           /\ run' = [ run EXCEPT ![e].turns = @ \cup { row } ]
    /\ runPc' = [ runPc EXCEPT ![e] = "done" ]
    /\ UNCHANGED << sends, events, projectContext, sbxVars >>

\* the function has returned or thrown: the execution is over
Run_End(e) ==
    /\ runPc[e] \in { "done", "failed" }
    /\ runPc' = [ runPc EXCEPT ![e] = "idle" ]
    /\ run' = [ run EXCEPT ![e] = startRun(@.engine) ]
    /\ projectContext' = [ projectContext EXCEPT ![e] = None ]
    /\ UNCHANGED << messages, sends, events, sbxVars >>

\* the engine runs step save-result a second time: the row of the first
\* execution of the step is committed, its result was not checkpointed
Run_SaveResultAgain(e) ==
    /\ runPc[e] = "done"
    /\ run[e].sandboxUrl # None
    /\ Cardinality(run[e].turns) = 1
    /\ LET row == saveResultRow(run[e].summary, filesOrEmpty(run[e].files),
                                Get(run[e].sandboxUrl))
       IN  /\ messages' = messages \cup { row }
           /\ run' = [ run EXCEPT ![e].turns = @ \cup { row } ]
    /\ UNCHANGED << sends, events, runPc, projectContext, sbxVars >>

\* the engine runs step save-sandbox-error a second time
Run_SaveSandboxErrorAgain(e) ==
    /\ runPc[e] = "done"
    /\ run[e].thrown # None
    /\ Cardinality(run[e].turns) = 1
    /\ LET row == Message(RunProject, "ASSISTANT", "ERROR", SandboxErrorText, nextCreatedAt, None)
       IN  /\ messages' = messages \cup { row }
           /\ run' = [ run EXCEPT ![e].turns = @ \cup { row } ]
    /\ UNCHANGED << sends, events, runPc, projectContext, sbxVars >>

\* the steps of network.run inside an agent invocation, with the responses,
\* tool calls and errors of the model and of the services drawn from the given
\* sets
NetworkSteps(outputs, toolCalls, errors) ==
    \/ \E e \in Execs : \E output \in outputs : Run_AgentNoTool(e, output)
    \/ \E e \in Execs :
          \E output \in outputs, call \in toolCalls :
             run[e].iter < MaxToolCalls /\ Run_AgentCallsTool(e, output, call)
    \/ \E e \in Execs : Run_ToolConnect(e)
    \/ \E e \in Execs : \E error \in errors : Run_ToolConnectThrows(e, error)
    \/ \E e \in Execs :
          \E outcome \in { o \in TerminalOutcomes : o.ok \/ o.error \in errors } :
             Run_TerminalRun(e, outcome)
    \/ \E e \in Execs : Run_WriteFile(e)
    \/ \E e \in Execs : \E error \in errors : Run_WriteFileThrows(e, error)
    \/ \E e \in Execs : Run_ReadFile(e)
    \/ \E e \in Execs : \E error \in errors : Run_ReadFileThrows(e, error)

\* the steps of the executions of codeAgentFunction
CodeAgentSteps(outputs, toolCalls, errors) ==
    \/ \E e \in Execs : BuildContext(e)
    \/ \E e \in Execs : Run_BuildContextThrows(e)
    \/ \E e \in Execs : Run_GetLatestProjectFiles(e)
    \/ \E e \in Execs : Run_GetLatestProjectFilesThrows(e)
    \/ \E e \in Execs : Run_GetOrCreateSandbox(e)
    \/ \E e \in Execs : GOC_ConnectOk(e)
    \/ \E e \in Execs : GOC_ConnectError(e)
    \/ \E e \in Execs : GOC_CreateOk(e)
    \/ \E e \in Execs : GOC_CreateError(e)
    \/ \E e \in Execs : \E path \in Paths : GOC_SyncWriteOk(e, path)
    \/ \E e \in Execs : \E path \in Paths : GOC_SyncWriteError(e, path)
    \/ \E e \in Execs : GOC_Update(e)
    \/ \E e \in Execs : Run_SandboxAcquired(e)
    \/ \E e \in Execs : Run_SandboxThrows(e)
    \/ \E e \in Execs : Run_Router(e)
    \/ \E e \in Execs : \E error \in errors : Run_AgentThrows(e, error)
    \/ NetworkSteps(outputs, toolCalls, errors)
    \/ \E e \in Execs : Run_SaveSandboxError(e)
    \/ \E e \in Execs : Run_GetSandboxUrl(e)
    \/ \E e \in Execs : Run_GetSandboxUrlThrows(e)
    \/ \E e \in Execs : Run_SaveResult(e)

(***************************************************************************)
(* helloWorld (src/src/inngest/functions.ts): a function on the event      *)
(* test/hello.world that creates an environment of its own, runs the same  *)
(* network (first snapshot of the file) or the agent once (second          *)
(* snapshot), and returns the preview URL. It reads and writes no row.     *)
(***************************************************************************)
HelloSnapshots == { "hello-world", "hello-world:agent" }

\* the engine delivers a test/hello.world event: the handler is invoked
Hello_Event(e, fn) ==
    /\ FreeExec(e)
    /\ runPc' = [ runPc EXCEPT ![e] = "get-sandbox-id" ]
    /\ run' = [ run EXCEPT ![e].fn = fn ]
    /\ UNCHANGED << messages, sends, events, projectContext, sbxVars >>

\* step get-sandbox-id: Sandbox.create("mragent-nextjs-test-2") resolves
Hello_GetSandboxId(e) ==
    /\ runPc[e] = "get-sandbox-id"
    /\ created < MaxSandboxes
    /\ LET id == SandboxId(created + 1)
       IN  /\ created' = created + 1
           /\ sandboxes' = [ i \in DOMAIN sandboxes \cup {id} |->
                               IF i = id THEN newSandbox ELSE sandboxes[i] ]
           /\ run' = [ run EXCEPT ![e].sandboxId = Some(id) ]
    /\ runPc' = [ runPc EXCEPT ![e] =
                    IF run[e].fn = "hello-world" THEN "router" ELSE "hello-agent" ]
    /\ UNCHANGED << messages, sends, events, projectContext, now, project, calls, cleanup,
                    passLog >>

\* step get-sandbox-id rejects: the error leaves the function
Hello_GetSandboxIdThrows(e) ==
    /\ runPc[e] = "get-sandbox-id"
    /\ run' = [ run EXCEPT ![e] = failedRun(@, "get-sandbox-id") ]
    /\ runPc' = [ runPc EXCEPT ![e] = "failed" ]
    /\ UNCHANGED << messages, sends, events, projectContext, sbxVars >>

\* the router of helloWorld's network: the summary check alone, nothing is seeded
Hello_Router(e) ==
    /\ runPc[e] = "router"
    /\ run[e].fn = "hello-world"
    /\ run' = [ run EXCEPT ![e].response = << >>, ![e].toolResult = None ]
    /\ runPc' = [ runPc EXCEPT ![e] = routerNext(run[e]) ]
    /\ UNCHANGED << messages, sends, events, projectContext, sbxVars >>

\* network.run throws: helloWorld has no try block around it
Hello_AgentThrows(e, error) ==
    /\ runPc[e] = "agent"
    /\ run[e].fn = "hello-world"
    /\ run' = [ run EXCEPT ![e] = failedRun([ @ EXCEPT !.thrown = Some(error) ], "agent") ]
    /\ runPc' = [ runPc EXCEPT ![e] = "failed" ]
    /\ UNCHANGED << messages, sends, events, projectContext, sbxVars >>

\* second snapshot: await codeAgent.run(...) of an agent without tools resolves
\* with { output }
Hello_AgentRun(e, output) ==
    /\ runPc[e] = "hello-agent"
    /\ ~HasToolCall(output)
    /\ run' = [ run EXCEPT ![e].response = output ]
    /\ runPc' = [ runPc EXCEPT ![e] = "get-sandbox-url" ]
    /\ UNCHANGED << messages, sends, events, projectContext, sbxVars >>

\* second snapshot: codeAgent.run rejects
Hello_AgentRunThrows(e, error) ==
    /\ runPc[e] = "hello-agent"
    /\ run' = [ run EXCEPT ![e] = failedRun([ @ EXCEPT !.thrown = Some(error) ], "agent") ]
    /\ runPc' = [ runPc EXCEPT ![e] = "failed" ]
    /\ UNCHANGED << messages, sends, events, projectContext, sbxVars >>

\* step get-sandbox-url resolves and the function returns its result
Hello_GetSandboxUrl(e) ==
    /\ runPc[e] = "get-sandbox-url"
    /\ run[e].fn \in HelloSnapshots
    /\ isLive(runSandbox(e))
    /\ run' = [ run EXCEPT ![e].sandboxUrl = Some(sandboxUrlOf(runSandbox(e))) ]
    /\ runPc' = [ runPc EXCEPT ![e] = "done" ]
    /\ UNCHANGED << messages, sends, events, projectContext, sbxVars >>

\* the steps of the executions of helloWorld; the loop and the tools are the
\* steps of the network above, taken with the strings of helloWorld's tools
HelloSteps(outputs, toolCalls, errors) ==
    \/ \E e \in Execs : \E fn \in HelloSnapshots : Hello_Event(e, fn)
    \/ \E e \in Execs : Hello_GetSandboxId(e)
    \/ \E e \in Execs : Hello_GetSandboxIdThrows(e)
    \/ \E e \in Execs : Hello_Router(e)
    \/ \E e \in Execs : \E error \in errors : Hello_AgentThrows(e, error)
    \/ \E e \in Execs : \E output \in outputs : Hello_AgentRun(e, output)
    \/ \E e \in Execs : \E error \in errors : Hello_AgentRunThrows(e, error)
    \/ \E e \in Execs : Hello_GetSandboxUrl(e)
    \/ \E e \in Execs : Run_GetSandboxUrlThrows(e)
    \/ NetworkSteps(outputs, toolCalls, errors)

(***************************************************************************)
(* One request and the execution it starts: a new project, or a project    *)
(* built in one earlier round whose environment may still be referenced.   *)
(***************************************************************************)
InitRun ==
    /\ messages \in { {}, SeedTurns(RunProject, SandboxId(1), 1, 0, [p \in {"a.txt"} |-> "1"]) }
    /\ sends = 0
    /\ events = 0
    /\ runPc = [ e \in CallIds |-> "idle" ]
    /\ projectContext = [ e \in CallIds |-> None ]
    /\ \E engine \in StepEngines : run = [ e \in CallIds |-> startRun(engine) ]
    /\ now \in { 0, SandboxTimeoutMs }
    /\ created \in { 0, 1 }
    /\ created = 1 => messages # {}
    /\ sandboxes = IF created = 0 THEN << >>
                   ELSE [ i \in { SandboxId(1) } |-> [ files |-> [p \in {"a.txt"} |-> "1"] ] ]
    /\ project = [ p \in Projects |->
                     IF p = RunProject /\ created = 1
                     THEN [ activeSandboxId |-> Some(SandboxId(1)),
                            sandboxExpiresAt |-> Some(SandboxTimeoutMs) ]
                     ELSE [ activeSandboxId |-> None, sandboxExpiresAt |-> None ] ]
    /\ calls = [ c \in CallIds |-> idleCall ]
    /\ cleanup = idleCleanup
    /\ passLog = << >>

\* the request whose execution SpecRun follows to its end ("done" or "failed")
RunRequest == "add b.txt with content 2"

\* the requests made with that text
Requests == { m \in UserTurns(RunProject) : m.content = RunRequest }

\* that request has been made
Requested == Requests # {}

NextRun ==
    \/ ~Requested /\ CreateProject(RunRequest)
    \/ ~Requested /\ CreateMessage(RunRequest)
    \/ SendEvent
    \/ SendEventRejects
    \/ \E e \in Execs : Run_Event(e)
    \/ CodeAgentSteps(Outputs, ToolCalls, ThrownValues)
    \/ \E n \in 1..MaxSandboxes : RemoteExpire(SandboxId(n))

SpecRun == InitRun /\ [][NextRun]_vars

\* an agent invocation returns a response
AgentResponds(e) == \E output \in Outputs : Run_AgentNoTool(e, output)

\* an await of a tool's step settles: it resolves or it rejects
ToolSettles(e) ==
    \/ Run_ToolConnect(e)
    \/ Run_WriteFile(e)
    \/ Run_ReadFile(e)
    \/ \E outcome \in TerminalOutcomes : Run_TerminalRun(e, outcome)
    \/ \E error \in ThrownValues :
          \/ Run_ToolConnectThrows(e, error)
          \/ Run_WriteFileThrows(e, error)
          \/ Run_ReadFileThrows(e, error)

\* the same execution when the network's decision step is eventually taken and
\* every agent invocation eventually returns: the model answers and every
\* await of a tool settles
SpecRunFair ==
    /\ SpecRun
    /\ \A e \in CallIds :
          WF_vars(Run_Router(e)) /\ WF_vars(AgentResponds(e)) /\ WF_vars(ToolSettles(e))

(***************************************************************************)
(* Executions of one project that follow one another (the engine starts    *)
(* the next one when no execution is in progress), with steps the engine   *)
(* runs a second time. The project is new, or it was built in one earlier  *)
(* round or in SeedRounds rounds and still references its environment.     *)
(***************************************************************************)
InitSeq ==
    /\ messages \in { {}, SeedTurns(RunProject, SandboxId(1), 1, 0, [p \in {"a.txt"} |-> "1"]), SeedStore }
    /\ sends = 0
    /\ events = 0
    /\ runPc = [ e \in CallIds |-> "idle" ]
    /\ projectContext = [ e \in CallIds |-> None ]
    /\ \E engine \in StepEngines : run = [ e \in CallIds |-> startRun(engine) ]
    /\ now = 0
    /\ created = IF messages = {} THEN 0 ELSE 1
    /\ sandboxes = IF created = 0 THEN << >>
                   ELSE [ i \in { SandboxId(1) } |-> [ files |-> [p \in {"a.txt"} |-> "1"] ] ]
    /\ project = [ p \in Projects |->
                     IF p = RunProject /\ created = 1
                     THEN [ activeSandboxId |-> Some(SandboxId(1)),
                            sandboxExpiresAt |-> Some(SandboxTimeoutMs) ]
                     ELSE [ activeSandboxId |-> None, sandboxExpiresAt |-> None ] ]
    /\ calls = [ c \in CallIds |-> idleCall ]
    /\ cleanup = idleCleanup
    /\ passLog = << >>

\* responses of the agent in these executions: the sentinel at once, or a tool
\* call with the sentinel in the same response
SeqOutputs ==
    { << TextMessage(TaskSummaryText) >>,
      << ToolCallMessage,
         TextPartsMessage(<< "added b.txt ", "<task_", "summary>b</task_summary>" >>) >> }

SeqToolCalls ==
    { WriteCall(<< File("b.txt", "2") >>),
      WriteCall(<< File("a.txt", "2"), File("b.txt", "2") >>),
      TerminalCall("rm a.txt"),
      ReadCall(<< "a.txt" >>) }

SeqErrors == { [ isObject |-> TRUE, text |-> "Error: read ECONNRESET" ] }

NextSeq ==
    \/ CreateProject(RunRequest)
    \/ Cardinality(Requests) < MaxRuns /\ TurnsOf(RunProject) # {} /\ CreateMessage(RunRequest)
    \/ SendEvent
    \/ SendEventRejects
    \/ NoExecution /\ \E e \in Execs : Run_Event(e)
    \/ CodeAgentSteps(SeqOutputs, SeqToolCalls, SeqErrors)
    \/ \E e \in Execs : Run_SaveSandboxErrorAgain(e)
    \/ \E e \in Execs : Run_SaveResultAgain(e)
    \/ \E e \in Execs : Run_End(e)
    \/ \E n \in 1..MaxSandboxes : RemoteExpire(SandboxId(n))

SpecSeq == InitSeq /\ [][NextSeq]_vars

(***************************************************************************)
(* Requests made at any time and executions of codeAgentFunction that      *)
(* overlap: MaxRuns requests on a new project, each event delivered as     *)
(* soon as the engine has it, the clock and the remote service going       *)
(* their own way.                                                          *)
(***************************************************************************)
InitOverlap ==
    /\ messages = {}
    /\ sends = 0
    /\ events = 0
    /\ runPc = [ e \in RaceCallIds |-> "idle" ]
    /\ projectContext = [ e \in RaceCallIds |-> None ]
    /\ \E engine \in StepEngines : run = [ e \in RaceCallIds |-> startRun(engine) ]
    /\ now = 0
    /\ created = 0
    /\ sandboxes = << >>
    /\ project = [ p \in Projects |-> [ activeSandboxId |-> None, sandboxExpiresAt |-> None ] ]
    /\ calls = [ c \in RaceCallIds |-> idleCall ]
    /\ cleanup = idleCleanup
    /\ passLog = << >>

OverlapOutputs ==
    { << TextMessage(TaskSummaryText) >>,
      << ToolCallMessage,
         TextPartsMessage(<< "added b.txt ", "<task_", "summary>b</task_summary>" >>) >> }

OverlapToolCalls ==
    { WriteCall(<< File("b.txt", "2") >>),
      TerminalCall("rm a.txt"),
      ReadCall(<< "b.txt" >>) }

NextOverlap ==
    \/ CreateProject(RunRequest)
    \/ Cardinality(Requests) < MaxRuns /\ TurnsOf(RunProject) # {} /\ CreateMessage(RunRequest)
    \/ SendEvent
    \/ SendEventRejects
    \/ \E e \in Execs : Run_Event(e)
    \/ CodeAgentSteps(OverlapOutputs, OverlapToolCalls, SeqErrors)
    \/ \E e \in Execs : Run_End(e)
    \/ Tick
    \/ \E n \in 1..MaxSandboxes : RemoteExpire(SandboxId(n))

SpecOverlap == InitOverlap /\ [][NextOverlap]_vars

(***************************************************************************)
(* Executions of helloWorld, one after another and side by side, in the    *)
(* environments they create.                                               *)
(***************************************************************************)
NextHello ==
    \/ HelloSteps(OverlapOutputs \cup { << ToolCallMessage >> }, OverlapToolCalls, SeqErrors)
    \/ \E e \in Execs : Run_End(e)
    \/ \E n \in 1..MaxSandboxes : RemoteExpire(SandboxId(n))

SpecHello == InitOverlap /\ [][NextHello]_vars

(***************************************************************************)
(* Properties of the context builder: C1 and C2 over the executions of     *)
(* SpecSeq, C3 over the execution of SpecRun.                              *)
(***************************************************************************)
\* a finite set of integers in ascending order
RECURSIVE Ascending(_)
Ascending(S) ==
    IF S = {} THEN << >>
    ELSE LET lo == CHOOSE t \in S : \A u \in S : t <= u
         IN  << lo >> \o Ascending(S \ {lo})

\* the turns of a project in creation order (createdAt is unique in the store)
ChronologicalTurns(projectId) ==
    LET T == TurnsOf(projectId)
        times == Ascending({ m.createdAt : m \in T })
    IN  [ i \in 1..Len(times) |-> CHOOSE m \in T : m.createdAt = times[i] ]

\* the n oldest turns of a project in creation order
OldestTurns(projectId, n) == getProjectMessageHistory(projectId, n)

\* the files of the artifact of the newest ASSISTANT/RESULT turn of a project
LatestArtifactFiles(projectId) ==
    LET R == { m \in TurnsOf(projectId) :
                 m.role = "ASSISTANT" /\ m.type = "RESULT" /\ IsSome(m.fragment) }
    IN  IF R = {} THEN EmptyFiles
        ELSE Get((CHOOSE m \in R : \A o \in R : o.createdAt <= m.createdAt).fragment).files

\* the last n elements of a sequence
LastN(seq, n) == SubSeq(seq, Len(seq) - Min(n, Len(seq)) + 1, Len(seq))

\* C1: whenever the build-context step has run on a project with two or more
\* stored turns (more than the window of 20 included), currentFiles is the file
\* set of the artifact of the chronologically last ASSISTANT/RESULT turn.
C1_CurrentFilesIsLatestArtifact ==
    \A e \in Execs :
        ( /\ runPc[e] = "get-or-create-sandbox"
          /\ Cardinality(TurnsOf(RunProject)) >= 2 )
            => Get(projectContext[e]).currentFiles = LatestArtifactFiles(RunProject)

\* C2: getProjectMessageHistory with the default limit returns the 20 most
\* recent turns of the project in ascending creation order; the newest turn is
\* always in the result.
C2_HistoryIsMostRecentWindow ==
    LET history == getProjectMessageHistory(RunProject, DefaultLimit)
        all == ChronologicalTurns(RunProject)
    IN  /\ history = LastN(all, DefaultLimit)
        /\ Len(all) > 0 => history[Len(history)] = all[Len(all)]

\* buildProjectContext on every prefix (up to MaxPrefix turns) of the project's
\* history: no context, no files and empty strings for 0 or 1 turns, context
\* for 2 turns or more
PrefixContexts ==
    \A k \in 0..Min(MaxPrefix, Cardinality(TurnsOf(RunProject))) :
        LET context == buildProjectContext(OldestTurns(RunProject, k))
        IN  /\ context.hasContext = (k >= 2)
            /\ k <= 1 => /\ context.currentFiles = EmptyFiles
                         /\ context.conversationHistory = ""
                         /\ context.projectSummary = ""
                         /\ context.developmentHistory = ""

\* C3: buildProjectContext returns hasContext = FALSE with an empty file set and
\* empty strings for every list of 0 or 1 turns and hasContext = TRUE for every
\* longer list: for every prefix (up to MaxPrefix turns) of the project's
\* history the build-context step is about to read, and for the context the
\* step has stored from the turns the project had when it ran.
C3_HasContextIffTwoTurns ==
    \A e \in Execs :
        /\ runPc[e] = "build-context" => PrefixContexts
        /\ runPc[e] = "get-or-create-sandbox" =>
              /\ Get(projectContext[e]).hasContext = (Cardinality(TurnsOf(RunProject)) >= 2)
              /\ Cardinality(TurnsOf(RunProject)) <= 1 =>
                    Get(projectContext[e]) = emptyContext

\* C3 witness: the build-context step has run for the first message of a project
C3_Witness ==
    \E e \in Execs :
        /\ runPc[e] = "get-or-create-sandbox"
        /\ Cardinality(TurnsOf(RunProject)) = 1
        /\ Get(projectContext[e]).hasContext = FALSE
        /\ Get(projectContext[e]).currentFiles = EmptyFiles

(***************************************************************************)
(* Properties of one workflow execution.                                   *)
(***************************************************************************)
\* the execution is over: the function returned ("done") or threw ("failed")
RunEnded(e) == runPc[e] \in { "done", "failed" }

\* network.run returned: the execution went on to the get-sandbox-url step
LoopEndedNormally(e) ==
    \/ run[e].sandboxUrl # None
    \/ run[e].failedAt = Some("get-sandbox-url")
    \/ runPc[e] \in { "get-sandbox-url", "save-result" }

ResultTurns(rows) == { m \in rows : m.role = "ASSISTANT" /\ m.type = "RESULT" }

ErrorTurns(rows) == { m \in rows : m.role = "ASSISTANT" /\ m.type = "ERROR" }

\* the snapshot S the execution was started with: currentFiles as build-context
\* returned it
Snapshot(e) == Get(run[e].snapshot)

\* C13: an execution that is over and created no ASSISTANT/RESULT turn has
\* created exactly one ASSISTANT/ERROR turn, with one of the two fixed messages,
\* whichever step failed.
C13_EveryOtherRunEndsInOneErrorTurn ==
    \A e \in Execs :
        (RunEnded(e) /\ ResultTurns(run[e].turns) = {}) =>
            /\ Cardinality(run[e].turns) = 1
            /\ \A m \in run[e].turns :
                  /\ m.role = "ASSISTANT"
                  /\ m.type = "ERROR"
                  /\ m.content \in { GenericErrorText, SandboxErrorText }

\* C14: an execution whose network.run returned and that is over has created
\* exactly one ASSISTANT turn: a RESULT turn when a summary is stored and the
\* accumulator has a path, an ERROR turn otherwise.
C14_OneTurnAfterNormalLoopEnd ==
    \A e \in Execs :
        (RunEnded(e) /\ LoopEndedNormally(e)) =>
            /\ Cardinality(run[e].turns) = 1
            /\ \A m \in run[e].turns :
                  /\ m.role = "ASSISTANT"
                  /\ m.type = IF run[e].summary # None
                                 /\ FileCount(filesOrEmpty(run[e].files)) > 0
                              THEN "RESULT" ELSE "ERROR"

\* C15: an execution that is over after MaxIter agent invocations without a
\* stored summary has created the generic ERROR turn, whether or not its
\* environment could still be reached.
C15_ExhaustedLoopPersistsGenericError ==
    \A e \in Execs :
        ( /\ RunEnded(e)
          /\ run[e].iter = MaxIter
          /\ run[e].summary = None
          /\ run[e].thrown = None ) =>
            \E m \in run[e].turns :
                /\ m.role = "ASSISTANT"
                /\ m.type = "ERROR"
                /\ m.content = GenericErrorText

\* C16: the turn save-result creates is an ERROR turn exactly when no summary
\* is stored or the accumulator has no path: a stored summary with an empty
\* accumulator is a failure, and so is a non-empty accumulator without summary.
C16_FailureIffNoSummaryOrNoFiles ==
    \A e \in Execs :
        (runPc[e] = "done" /\ run[e].sandboxUrl # None) =>
            \A m \in run[e].turns :
                (m.type = "ERROR") <=>
                    \/ run[e].summary = None
                    \/ run[e].files = None
                    \/ DOMAIN Get(run[e].files) = {}

\* C16 witness: the sentinel was seen and no file was ever written; the
\* execution ended with an ERROR turn
C16_Witness ==
    \E e \in Execs :
        /\ runPc[e] = "done"
        /\ run[e].sandboxUrl # None
        /\ run[e].summary # None
        /\ run[e].files = None
        /\ ErrorTurns(run[e].turns) # {}

\* C17: an execution that started with hasContext and the snapshot S and ended
\* with a RESULT turn created that turn alone, and its artifact holds S
\* overridden by the files written with the successful createOrUpdateFiles
\* calls of the execution (the calls whose step returned the files): a path no
\* such call rewrote has its content of S, a path such a call wrote has its
\* last written content. A call whose write phase threw contributes nothing.
C17_ArtifactIsSnapshotPlusSuccessfulWrites ==
    \A e \in Execs :
        ( /\ runPc[e] = "done"
          /\ Get(projectContext[e]).hasContext
          /\ ResultTurns(run[e].turns) # {} ) =>
            LET S == Snapshot(e)
            IN  /\ Cardinality(run[e].turns) = 1
                /\ \A m \in run[e].turns :
                      /\ m.fragment # None
                      /\ Get(m.fragment).files = MergeFiles(S, run[e].committed)

\* C18: when the terminal tool caught an error, the next step of the execution
\* is the decision step of the loop and the tool's result is a string: the fixed
\* retry hint, without the error text, if isSandboxError accepts the error, and
\* otherwise a string holding the error text, the captured stdout and the
\* captured stderr.
C18_TerminalErrorBecomesToolResult ==
    \A e \in Execs, error \in ThrownValues :
        ( /\ run[e].toolResult # None
          /\ Get(run[e].toolResult).tool = "terminal"
          /\ Get(run[e].toolResult).thrown = Some(error) ) =>
            LET r == Get(run[e].toolResult)
            IN  /\ runPc[e] = "router"
                /\ run[e].thrown = None
                /\ r.type = "string"
                /\ isSandboxError(error) =>
                      /\ r.value = RetryHintText
                      /\ ~includes(r.value, error.text)
                /\ ~isSandboxError(error) =>
                      /\ includes(r.value, error.text)
                      /\ includes(r.value, r.buffers.stdout)
                      /\ includes(r.value, r.buffers.stderr)
                      /\ r.value # RetryHintText

\* C18 witness: a command failed with ECONNRESET before the loop's ceiling; the
\* tool returned the retry hint and the loop is at its decision step
C18_Witness ==
    \E e \in Execs :
        /\ runPc[e] = "router"
        /\ run[e].iter < MaxIter
        /\ run[e].summary = None
        /\ run[e].toolResult # None
        /\ Get(run[e].toolResult).tool = "terminal"
        /\ Get(run[e].toolResult).thrown =
              Some([ isObject |-> TRUE, text |-> "Error: read ECONNRESET" ])
        /\ Get(run[e].toolResult).buffers.stdout = "installing"
        /\ Get(run[e].toolResult).value = RetryHintText

\* C19: once an error that isSandboxError accepts has left network.run, the
\* execution fetches no preview URL and only runs save-sandbox-error: it ends
\* having created one ASSISTANT/ERROR turn with the environment message and no
\* artifact.
C19_SandboxErrorShortCircuits ==
    \A e \in Execs :
        (run[e].thrown # None /\ isSandboxError(Get(run[e].thrown))) =>
            /\ runPc[e] \in { "save-sandbox-error", "done" }
            /\ run[e].sandboxUrl = None
            /\ run[e].failedAt = None
            /\ run[e].turns =
                  IF runPc[e] = "done"
                  THEN { m \in messages : /\ m.projectId = RunProject
                                          /\ m.role = "ASSISTANT"
                                          /\ m.type = "ERROR"
                                          /\ m.content = SandboxErrorText
                                          /\ m.fragment = None }
                  ELSE {}
            /\ runPc[e] = "done" => Cardinality(run[e].turns) = 1

\* C19 witness: the execution ended on the short circuit after tool calls had
\* filled the accumulator and a summary could have been persisted
C19_Witness ==
    \E e \in Execs :
        /\ runPc[e] = "done"
        /\ run[e].thrown # None
        /\ run[e].files # None
        /\ FileCount(filesOrEmpty(run[e].files)) = 2
        /\ Cardinality(run[e].turns) = 1

\* C20: in every state of the store no ERROR turn has an artifact, and every
\* artifact belongs to an ASSISTANT turn of type RESULT.
C20_ArtifactsOnlyOnResultTurns ==
    \A m \in messages :
        /\ m.type = "ERROR" => m.fragment = None
        /\ m.fragment # None => (m.role = "ASSISTANT" /\ m.type = "RESULT")

\* C20 witness: the store holds a RESULT turn with its artifact and an ERROR
\* turn written by an execution whose accumulator was not empty
C20_Witness ==
    \E e \in Execs :
        /\ runPc[e] = "done"
        /\ run[e].files # None
        /\ FileCount(filesOrEmpty(run[e].files)) > 0
        /\ ErrorTurns(run[e].turns) # {}
        /\ \E m \in messages : m.fragment # None

\* C21: the ASSISTANT/RESULT turn an execution created has the stored summary
\* as its content, and its artifact holds the URL of the execution's
\* environment, the title "Fragment" and exactly the files of the accumulator
\* network.run ended with.
C21_ResultTurnHoldsSummaryUrlAndFiles ==
    \A e \in Execs :
        (runPc[e] = "done" /\ ResultTurns(run[e].turns) # {}) =>
            \A m \in ResultTurns(run[e].turns) :
                /\ run[e].summary # None
                /\ m.content = Get(run[e].summary)
                /\ m.fragment # None
                /\ Get(m.fragment).sandboxUrl = sandboxUrlOf(runSandbox(e))
                /\ Get(m.fragment).title = "Fragment"
                /\ run[e].files # None
                /\ Get(m.fragment).files = Get(run[e].files)

\* C21 witness: an execution without context wrote a.txt and b.txt, stored a
\* summary other than the one of the earlier rounds and persisted it
C21_Witness ==
    \E e \in Execs :
        /\ runPc[e] = "done"
        /\ run[e].summary = Some("added b.txt <task_summary>b</task_summary>")
        /\ run[e].files = Some([p \in {"a.txt", "b.txt"} |-> "2"])
        /\ \E m \in run[e].turns :
              /\ m.type = "RESULT"
              /\ m.content = "added b.txt <task_summary>b</task_summary>"
              /\ Get(m.fragment).files = [p \in {"a.txt", "b.txt"} |-> "2"]
              /\ Get(m.fragment).sandboxUrl = "https://3000-sbx1.e2b.dev"

\* the step ends a createOrUpdateFiles call of the execution in its catch block
FailedWriteStep(e) ==
    /\ runPc[e] = "tool"
    /\ run[e].call # None
    /\ run'[e].toolResult # None
    /\ Get(run'[e].toolResult).tool = "createOrUpdateFiles"
    /\ Get(run'[e].toolResult).thrown # None

\* C22: a createOrUpdateFiles call in which a write throws leaves the
\* accumulator exactly as it was before the call, whether it was undefined,
\* seeded or filled by earlier calls.
C22_FailedWriteLeavesAccumulator ==
    [][ \A e \in Execs :
          FailedWriteStep(e) => run'[e].files = Get(run[e].call).before ]_vars

\* C23: whatever a tool caught, no exception leaves network.run because of it,
\* the loop goes on to its decision step, and the handler returns to the model
\* the string its step produced.
C23_ToolFailuresReturnStrings ==
    \A e \in Execs :
        (run[e].toolResult # None /\ Get(run[e].toolResult).thrown # None) =>
            LET r == Get(run[e].toolResult)
            IN  /\ runPc[e] = "router"
                /\ run[e].thrown = None
                /\ run[e].failedAt = None
                /\ r.type = "string"
                /\ r.returned = Some(r.value)

\* the paths a files argument lists, and the content of a path's last occurrence
ListedPaths(list) == { list[i].path : i \in 1..Len(list) }

LastContent(list, p) ==
    list[CHOOSE i \in 1..Len(list) :
            /\ list[i].path = p
            /\ \A j \in 1..Len(list) : list[j].path = p => j <= i].content

\* the step ends a createOrUpdateFiles call of the execution with its last write
CompletedWriteStep(e) ==
    /\ runPc[e] = "tool"
    /\ run[e].call # None
    /\ run'[e].toolResult # None
    /\ Get(run'[e].toolResult).tool = "createOrUpdateFiles"
    /\ Get(run'[e].toolResult).thrown = None

\* C24: no step of an execution removes a path from the accumulator, and a
\* createOrUpdateFiles call that wrote every file leaves each listed path with
\* the content of its last occurrence in the list and every other path with
\* the content it had before the call.
C24_AccumulatorOnlyGrows ==
    [][ \A e \in Execs :
          /\ (run[e].files # None /\ runPc'[e] # "idle") =>
                /\ run'[e].files # None
                /\ DOMAIN Get(run[e].files) \subseteq DOMAIN Get(run'[e].files)
          /\ CompletedWriteStep(e) =>
                LET list   == Get(run[e].call).files
                    before == filesOrEmpty(Get(run[e].call).before)
                    after  == filesOrEmpty(run'[e].files)
                IN  /\ run'[e].files # None
                    /\ DOMAIN after = DOMAIN before \cup ListedPaths(list)
                    /\ \A p \in ListedPaths(list) : after[p] = LastContent(list, p)
                    /\ \A p \in DOMAIN before \ ListedPaths(list) : after[p] = before[p]
      ]_vars

\* C24 witness: a call that completed added b.txt = "2" to an accumulator seeded
\* with a.txt = "1", which kept its content
C24_Witness ==
    \E e \in Execs :
        /\ runPc[e] = "router"
        /\ Get(projectContext[e]).hasContext
        /\ run[e].toolResult # None
        /\ Get(run[e].toolResult).tool = "createOrUpdateFiles"
        /\ Get(run[e].toolResult).thrown = None
        /\ run[e].files = Some([p \in {"a.txt", "b.txt"} |-> IF p = "a.txt" THEN "1" ELSE "2"])

\* the text of the last assistant-authored message of a response ("" when the
\* message has no content)
LastAssistantText(output) ==
    LET idx  == { i \in 1..Len(output) : output[i].role = "assistant" }
        last == CHOOSE i \in idx : \A j \in idx : j <= i
    IN  IF output[last].content = None THEN ""
        ELSE join(Get(output[last].content).parts, "")

\* C25: the stored summary changes only in the step that receives an agent
\* response, only when the text of the last assistant-authored message of that
\* response contains "<task_summary>", and it becomes that whole text; every
\* ASSISTANT/RESULT turn of the store has a content containing the sentinel.
C25_SummaryOnlyFromSentinel ==
    /\ [][ \A e \in Execs :
             (run'[e].summary # run[e].summary /\ runPc'[e] # "idle") =>
                /\ runPc[e] = "agent"
                /\ run'[e].response # << >>
                /\ includes(LastAssistantText(run'[e].response), "<task_summary>")
                /\ run'[e].summary = Some(LastAssistantText(run'[e].response)) ]_vars
    /\ [](\A m \in ResultTurns(messages) : includes(m.content, "<task_summary>"))

\* C25 witness: a response made of a tool call followed by a text in three
\* parts, the sentinel split over two of them, stored the joined text while the
\* tool was still to run
C25_Witness ==
    \E e \in Execs :
        /\ runPc[e] = "tool"
        /\ Len(run[e].response) = 2
        /\ run[e].response[1].type = "tool_call"
        /\ run[e].summary = Some("added b.txt <task_summary>b</task_summary>")

\* C26: once a summary is stored it is never written again, the network never
\* goes back to the agent, and apart from the tool call of the response that
\* carried the sentinel no tool runs and no agent invocation is made.
C26_NoAgentAfterSummary ==
    [][ \A e \in Execs :
          (run[e].summary # None /\ runPc'[e] # "idle") =>
             /\ run'[e].summary = run[e].summary
             /\ runPc'[e] # "agent"
             /\ runPc[e] # "tool" =>
                   /\ runPc'[e] # "tool"
                   /\ run'[e].iter = run[e].iter
                   /\ run'[e].toolResult \in { None, run[e].toolResult }
                   /\ run'[e].files = run[e].files ]_vars

\* C26 witness: the decision step that followed the sentinel ended the loop
\* well before the ceiling
C26_Witness ==
    \E e \in Execs :
        /\ runPc[e] = "get-sandbox-url"
        /\ run[e].summary # None
        /\ run[e].iter = 2

\* network.run is running: the network is at its decision step, in an agent
\* invocation or in the tool call of one
InLoop(e) == runPc[e] \in { "router", "agent", "tool" }

\* C27: network.run never makes more than MaxIter agent invocations, with or
\* without a stored summary, and when every invocation returns the loop is
\* left.
C27_AtMostMaxIterInvocations ==
    /\ [](\A e \in Execs : run[e].iter <= MaxIter)
    /\ \A e \in CallIds : InLoop(e) ~> ~InLoop(e)

\* C27 witness: the loop was left after MaxIter invocations without a summary
C27_Witness ==
    \E e \in Execs :
        /\ runPc[e] = "get-sandbox-url"
        /\ run[e].iter = MaxIter
        /\ run[e].summary = None
        /\ run[e].thrown = None

\* C28: the first agent invocation finds the accumulator holding the snapshot
\* of the context when hasContext is true and undefined (empty) when it is
\* false, and no decision step after the first changes the accumulator.
C28_SeededOnceBeforeFirstInvocation ==
    /\ [](\A e \in Execs :
            (runPc[e] = "agent" /\ run[e].iter = 0) =>
               run[e].files = IF Get(projectContext[e]).hasContext
                              THEN Some(Snapshot(e))
                              ELSE None)
    /\ [][ \A e \in Execs :
             (runPc[e] = "router" /\ run[e].iter > 0) => run'[e].files = run[e].files ]_vars

\* C28 witness: the accumulator was seeded with a.txt = "1", a call changed
\* a.txt and added b.txt, and a later decision step left both in place
C28_Witness ==
    \E e \in Execs :
        /\ runPc[e] = "agent"
        /\ run[e].iter > 0
        /\ Get(projectContext[e]).hasContext
        /\ Snapshot(e) = [p \in {"a.txt"} |-> "1"]
        /\ run[e].files = Some([p \in {"a.txt", "b.txt"} |-> "2"])

\* C29: when the error that left network.run is one isSandboxError rejects,
\* the function throws it from the agent loop: the execution creates no turn,
\* fetches no preview URL and runs neither save-sandbox-error nor save-result.
C29_OtherErrorsAreRethrown ==
    \A e \in Execs :
        (run[e].thrown # None /\ ~isSandboxError(Get(run[e].thrown))) =>
            /\ runPc[e] = "failed"
            /\ run[e].failedAt = Some("agent")
            /\ run[e].turns = {}
            /\ run[e].sandboxUrl = None
            /\ \A m \in messages :
                  m.role = "ASSISTANT" =>
                      m \in SeedTurns(RunProject, SandboxId(1), 1, 0, [p \in {"a.txt"} |-> "1"])

\* C29 witness: "Error: exit status 1" left the loop of an execution that had
\* already written files
C29_Witness ==
    \E e \in Execs :
        /\ runPc[e] = "failed"
        /\ run[e].thrown = Some([ isObject |-> TRUE, text |-> "Error: exit status 1" ])
        /\ run[e].files # None
        /\ run[e].turns = {}

\* the text of a thrown value contains one of the connectivity substrings,
\* whatever the case of its letters
HasConnectivityText(error) ==
    \E kw \in SandboxErrorKeywords : includes(toLowerCase(error.text), kw)

\* C30: a thrown value is treated as a connectivity error exactly when its
\* text contains one of the fixed substrings, Error object or plain string
\* alike: a tool that caught it returns the retry hint, and the execution it
\* escaped from the loop of goes to save-sandbox-error.
C30_ClassifiedByTextAlone ==
    \A e \in Execs :
        /\ run[e].thrown # None =>
              (runPc[e] \in { "save-sandbox-error", "done" }
                  <=> HasConnectivityText(Get(run[e].thrown)))
        /\ (run[e].toolResult # None /\ Get(run[e].toolResult).thrown # None) =>
              (Get(run[e].toolResult).value = RetryHintText
                  <=> HasConnectivityText(Get(Get(run[e].toolResult).thrown)))

\* C31: an execution whose save-result or save-sandbox-error step is run again
\* after its row was committed still leaves exactly one new ASSISTANT turn in
\* the project: no execution ever creates a second one.
C31_StepRerunKeepsOneTurn ==
    \A e \in Execs : Cardinality(run[e].turns) <= 1

\* the call created an environment and returned it
CreatedAndReturned(c) ==
    /\ calls[c].pc = "returned"
    /\ calls[c].sandbox # None

\* C32: nothing keeps two calls on one project apart. When both found no
\* possibly-live reference, created an environment and returned, they returned
\* different ids with isReused = FALSE and the project row holds the id and
\* expiry of one of them only, so the other execution works in an environment
\* the project does not reference; each update overwrites what the row held.
C32_ConcurrentCallsBothCreate ==
    /\ []( ( /\ CreatedAndReturned("run1") /\ ~calls["run1"].active
              /\ CreatedAndReturned("run2") /\ ~calls["run2"].active ) =>
               /\ Get(calls["run1"].result).isReused = FALSE
               /\ Get(calls["run2"].result).isReused = FALSE
               /\ Get(calls["run1"].result).sandboxId # Get(calls["run2"].result).sandboxId
               /\ \E c \in RaceCallIds :
                     /\ project[RunProject].activeSandboxId = calls[c].sandbox
                     /\ project[RunProject].sandboxExpiresAt = calls[c].sandboxExpiresAt
               /\ \E c \in RaceCallIds :
                     project[RunProject].activeSandboxId # Some(Get(calls[c].result).sandboxId) )
    /\ [][ \A c \in RaceCallIds :
              (calls[c].pc = "update" /\ calls'[c].pc = "returned") =>
                  project'[RunProject].activeSandboxId = calls[c].sandbox ]_vars

\* C32 witness: run1 stored sbx1, then run2 stored sbx2 over it; both
\* returned a fresh environment and run1 holds the one no longer referenced
C32_Witness ==
    /\ CreatedAndReturned("run1") /\ ~calls["run1"].active
    /\ CreatedAndReturned("run2") /\ ~calls["run2"].active
    /\ Get(calls["run1"].result) = [ sandboxId |-> "sbx1", isReused |-> FALSE ]
    /\ Get(calls["run2"].result) = [ sandboxId |-> "sbx2", isReused |-> FALSE ]
    /\ project[RunProject].activeSandboxId = Some("sbx2")
    /\ isLive("sbx1")

\* C33: cleanup never clears a reference whose stored expiry is in the
\* future: in every interleaving of cleanupExpiredSandboxes with
\* getOrCreateProjectSandbox, a step that clears a project's reference finds it
\* with a stored expiry that has already passed.
C33_CleanupClearsOnlyExpired ==
    [][ \A p \in Projects :
          (project[p].activeSandboxId # None /\ project'[p].activeSandboxId = None) =>
              /\ project[p].sandboxExpiresAt # None
              /\ Get(project[p].sandboxExpiresAt) < now ]_vars

\* C34: over the sequential executions of one project the artifacts are
\* cumulative: every path in the artifact of an earlier ASSISTANT/RESULT turn is
\* in the artifact of every later one, also when the project has more than the
\* window of 20 turns.
C34_ArtifactsAreCumulative ==
    \A m1, m2 \in ResultTurns(TurnsOf(RunProject)) :
        m1.createdAt < m2.createdAt =>
            DOMAIN Get(m1.fragment).files \subseteq DOMAIN Get(m2.fragment).files

\* C35: at the start of the agent loop of an execution that has context, each
\* path of the seeded accumulator exists in the execution's environment with
\* exactly the accumulator's content, whether the environment is fresh and
\* resynced or reused (also after an earlier execution wrote files in it and
\* ended in an ERROR turn).
C35_SeedMatchesEnvironment ==
    \A e \in Execs :
        ( /\ runPc[e] = "agent"
          /\ run[e].iter = 0
          /\ Get(projectContext[e]).hasContext
          /\ run[e].files # None
          /\ isLive(runSandbox(e)) ) =>
            \A path \in DOMAIN Get(run[e].files) :
                readFile(runSandbox(e), path) = Some(Get(run[e].files)[path])

\* the accumulator of the execution was seeded with a snapshot that has files
SeededNonEmpty(e) ==
    /\ Get(projectContext[e]).hasContext
    /\ FileCount(Snapshot(e)) > 0

\* C36 as stated: an execution stores an ASSISTANT/RESULT turn only if a
\* createOrUpdateFiles call of it wrote a file, and an execution that stored the
\* summary and wrote no file ends with an ERROR turn, seeded or not.
C36_ResultOnlyAfterWrite ==
    \A e \in Execs :
        /\ (runPc[e] = "done" /\ ResultTurns(run[e].turns) # {}) => run[e].written # EmptyFiles
        /\ (runPc[e] = "done" /\ run[e].sandboxUrl # None /\ run[e].summary # None
                /\ run[e].written = EmptyFiles) => ErrorTurns(run[e].turns) # {}

\* C36 amended: an execution stores an ASSISTANT/RESULT turn only if it stored
\* the summary and its accumulator ended non-empty, that is, it was seeded with a
\* non-empty snapshot or a write of a createOrUpdateFiles call landed; an
\* execution that stored the summary and wrote no file ends with an ERROR turn
\* exactly when no non-empty snapshot was seeded.
C36_ResultOnlyWithFiles ==
    \A e \in Execs :
        /\ (runPc[e] = "done" /\ ResultTurns(run[e].turns) # {}) =>
              /\ run[e].summary # None
              /\ SeededNonEmpty(e) \/ run[e].written # EmptyFiles
        /\ (runPc[e] = "done" /\ run[e].sandboxUrl # None /\ run[e].summary # None
                /\ run[e].written = EmptyFiles) =>
              /\ Cardinality(run[e].turns) = 1
              /\ (ErrorTurns(run[e].turns) # {}) <=> ~SeededNonEmpty(e)

\* C36 witness: seeded with a.txt = "1", the execution stored the summary,
\* wrote nothing, and ended with a RESULT turn whose artifact is the snapshot
C36_Witness ==
    \E e \in Execs :
        /\ runPc[e] = "done"
        /\ SeededNonEmpty(e)
        /\ run[e].summary # None
        /\ run[e].written = EmptyFiles
        /\ \E m \in ResultTurns(run[e].turns) : Get(m.fragment).files = Snapshot(e)

\* within one execution the environment id never changes once it is set, the
\* preview URL is the one of that id, and while the loop, the preview-URL step
\* and the save step run no environment is created, no acquisition is under way
\* and the project row is not rewritten
EnvironmentFixedAtAcquisition ==
    /\ [](\A e \in Execs :
            run[e].sandboxUrl # None => run[e].sandboxUrl = Some(sandboxUrlOf(runSandbox(e))))
    /\ [][ \A e \in Execs : run[e].sandboxId # None => run'[e].sandboxId = run[e].sandboxId ]_vars
    /\ [][ \A e \in Execs :
             (runPc[e] \in { "router", "agent", "tool", "get-sandbox-url", "save-result" }) =>
                (created' = created /\ project' = project /\ calls' = calls) ]_vars

\* the step ends a tool call of the execution whose environment has expired
ExpiredToolStep(e) ==
    /\ runPc[e] = "tool"
    /\ ~isLive(runSandbox(e))
    /\ run'[e].toolResult # None

\* C37: within one execution the environment id is fixed at
\* acquisition and no replacement is acquired; once that environment has expired
\* every tool call returns an error string to the model and the loop goes on
\* to its next decision step.
C37_ExpiredToolCallsReturnErrorString ==
    /\ EnvironmentFixedAtAcquisition
    /\ [][ \A e \in Execs :
             ExpiredToolStep(e) =>
                ( /\ runPc'[e] = "router"
                  /\ Get(run'[e].toolResult).thrown # None
                  /\ Get(run'[e].toolResult).type = "string"
                  /\ Get(run'[e].toolResult).returned =
                        Some(Get(run'[e].toolResult).value) ) ]_vars

\* C38: an environment is never returned as reused 5 minutes or more after its
\* creation: when a call returns isReused = TRUE for the environment another
\* call created, at a clock still before the stored expiry it checked, that
\* clock is less than the 5-minute horizon after the environment's creation.
C38_NeverReusedAfterHorizon ==
    [][ \A c, d \in RaceCallIds :
          ( /\ calls[d].pc = "connect"
            /\ calls'[d].pc = "returned"
            /\ Get(calls'[d].result).isReused
            /\ calls[c].sandbox = Some(Get(calls'[d].result).sandboxId)
            /\ now < Get(Get(calls[d].row).sandboxExpiresAt) ) =>
              now < Get(calls[c].createdAt) + SandboxTimeoutMs ]_vars

\* C39: a call of getOrCreateProjectSandbox that fails leaves the project row
\* alone: the row is rewritten only by the update that ends a creating call with
\* its return, or by the cleanup; the step at which the creation or a resync
\* write throws changes no row, and the row of a call that threw does not
\* reference the environment that call created.
C39_FailedCallStoresNothing ==
    /\ [](\A c \in CallIds :
            (calls[c].pc = "thrown" /\ calls[c].sandbox # None) =>
                project[calls[c].projectId].activeSandboxId # calls[c].sandbox)
    /\ [][ \A c \in CallIds :
              (calls[c].pc # "thrown" /\ calls'[c].pc = "thrown") => project' = project ]_vars
    /\ [][ \A p \in Projects :
              project'[p] # project[p] =>
                  \/ /\ cleanup.pc = "update"
                     /\ project'[p] = [ activeSandboxId |-> None, sandboxExpiresAt |-> None ]
                  \/ \E c \in CallIds :
                        /\ calls[c].projectId = p
                        /\ calls[c].pc = "update"
                        /\ calls'[c].pc = "returned" ]_vars

\* C39 witness: p1 references sbx1; a later call created sbx2, wrote one of two
\* files, the second write threw, and p1 still references sbx1
C39_Witness ==
    \E c \in CallIds :
        /\ calls[c].pc = "thrown"
        /\ calls[c].writeError
        /\ calls[c].sandbox = Some("sbx2")
        /\ Cardinality(calls[c].written) = 1
        /\ project[calls[c].projectId].activeSandboxId = Some("sbx1")

====
